---- MODULE Spec2Model ----
(***************************************************************************)
(* Model of the compute image client of mgc-sdk-go: imageService.List and  *)
(* imageService.ListAll (src/compute/images.go) running against an HTTP    *)
(* server shaped like the httptest handlers of the package's tests         *)
(* (src/unnamed/part_001).                                                 *)
(*                                                                         *)
(* Each goroutine is one caller of Images().List or Images().ListAll.  A   *)
(* blocking List call is split at its only suspension point, the HTTP      *)
(* round trip: the request is put on the network, the server handler       *)
(* answers it, and the goroutine resumes with the reply.                   *)
(***************************************************************************)
EXTENDS Integers, Sequences, FiniteSets, TLC

\* ------------------------------------------------------------------------
\* Program constants and bounds
\* ------------------------------------------------------------------------

\* limit := 50 in ListAll
PageLimit == 50

\* the most full pages (>= PageLimit records) the server serves to one call
MaxFullPages == 2

\* the most options a caller passes to objectstorage.New
MaxOptions == 2

\* the most options a caller passes to compute.New
MaxVMOptions == 3

\* the most calls a test makes on one test double
MaxMockOps == 3

\* a nil pointer is the empty sequence and a pointer to v is <<v>>, so that
\* an absent field and a present zero value stay different
Nil == <<>>
Ptr(v) == <<v>>
Deref(p) == p[1]

Goroutines == {1, 2}

\* errors returned by the transport; NoError is Go's nil error
NoError == "nil"
ErrCanceled == "context.Canceled"
ErrValidation == "ValidationError"
ErrNotFound == "NotFoundError"
ErrConflict == "ConflictError"
ErrServer == "ServerError"
ErrHTTP == "HTTPError"
ErrDecoding == "DecodingError"

\* the error of a request that could not be built
ErrRequest == "RequestError"

\* values a caller passes for the optional string fields
SortValues == {Nil, Ptr("platform:asc")}
ZoneValues == {Nil, Ptr("zone1")}

\* values a caller of List passes for Limit and Offset
IntValues == {Nil, Ptr(0 - 1), Ptr(0), Ptr(1)}

\* sizes of the server's data set: empty, less than a page, one page, and
\* as many pages as the server serves with half a page more
DataSizes == {0, PageLimit - 1, PageLimit, MaxFullPages * PageLimit + PageLimit \div 2}

\* record counts of a page the server makes up without looking at its data
PageCounts == {PageLimit - 1, PageLimit + 1}

\* ------------------------------------------------------------------------
\* Go integer helpers
\* ------------------------------------------------------------------------

Min(a, b) == IF a < b THEN a ELSE b
Max(a, b) == IF a > b THEN a ELSE b

\* Go's a / b for b > 0: the quotient truncated toward zero
GoDiv(a, b) == IF a >= 0 THEN a \div b ELSE 0 - ((0 - a) \div b)

\* ------------------------------------------------------------------------
\* strconv.Itoa / strconv.Atoi on decimal strings
\* ------------------------------------------------------------------------

Digit(d) ==
    CASE d = 0 -> "0" [] d = 1 -> "1" [] d = 2 -> "2" [] d = 3 -> "3"
      [] d = 4 -> "4" [] d = 5 -> "5" [] d = 6 -> "6" [] d = 7 -> "7"
      [] d = 8 -> "8" [] d = 9 -> "9"

RECURSIVE FormatNat(_)
FormatNat(n) ==
    IF n < 10 THEN Digit(n) ELSE FormatNat(n \div 10) \o Digit(n % 10)

Itoa_Clamped(n) == IF n < 0 THEN "0" ELSE FormatNat(n)

\* strconv.Itoa(n)
Itoa(n) == IF n < 0 THEN "-" \o FormatNat(0 - n) ELSE FormatNat(n)

\* the i-th character of s
CharAt(s, i) == SubSeq(s, i, i)

DigitValue(ch) ==
    CASE ch = "0" -> 0 [] ch = "1" -> 1 [] ch = "2" -> 2 [] ch = "3" -> 3
      [] ch = "4" -> 4 [] ch = "5" -> 5 [] ch = "6" -> 6 [] ch = "7" -> 7
      [] ch = "8" -> 8 [] ch = "9" -> 9 [] OTHER -> 0 - 1

RECURSIVE ParseNat(_, _, _)
\* the value of the digits of s from position i on, following the accumulated
\* value acc; -1 on a character that is not a digit
ParseNat(s, i, acc) ==
    IF i > Len(s) THEN acc
    ELSE IF DigitValue(CharAt(s, i)) < 0 THEN 0 - 1
         ELSE ParseNat(s, i + 1, acc * 10 + DigitValue(CharAt(s, i)))

\* [ok, val]: strconv.Atoi's (value, err == nil)
Atoi(s) ==
    IF Len(s) = 0 THEN [ok |-> FALSE, val |-> 0]
    ELSE IF CharAt(s, 1) = "-"
         THEN IF Len(s) = 1 \/ ParseNat(s, 2, 0) < 0
              THEN [ok |-> FALSE, val |-> 0]
              ELSE [ok |-> TRUE, val |-> 0 - ParseNat(s, 2, 0)]
         ELSE IF ParseNat(s, 1, 0) < 0
              THEN [ok |-> FALSE, val |-> 0]
              ELSE [ok |-> TRUE, val |-> ParseNat(s, 1, 0)]

\* ------------------------------------------------------------------------
\* Query strings: url.Values.Encode on the client, URL.Query().Get on the
\* server
\* ------------------------------------------------------------------------

\* url.QueryEscape on the characters the callers' values contain
EscapeChar(ch) ==
    CASE ch = ":" -> "%3A" [] ch = "&" -> "%26" [] ch = "=" -> "%3D"
      [] ch = "%" -> "%25" [] ch = " " -> "+" [] ch = "/" -> "%2F" [] OTHER -> ch

RECURSIVE EscapeFrom(_, _)
EscapeFrom(s, i) ==
    IF i > Len(s) THEN "" ELSE EscapeChar(CharAt(s, i)) \o EscapeFrom(s, i + 1)

QueryEscape(s) == EscapeFrom(s, 1)

UnescapeCode(code) ==
    CASE code = "%3A" -> ":" [] code = "%26" -> "&" [] code = "%3D" -> "="
      [] code = "%25" -> "%" [] code = "%2F" -> "/" [] OTHER -> code

RECURSIVE UnescapeFrom(_, _, _)
\* s from position i up to position last, unescaped
UnescapeFrom(s, i, last) ==
    IF i > last THEN ""
    ELSE IF CharAt(s, i) = "%" /\ i + 2 <= last
         THEN UnescapeCode(SubSeq(s, i, i + 2)) \o UnescapeFrom(s, i + 3, last)
         ELSE IF CharAt(s, i) = "+"
              THEN " " \o UnescapeFrom(s, i + 1, last)
              ELSE CharAt(s, i) \o UnescapeFrom(s, i + 1, last)

QueryUnescape(s) == UnescapeFrom(s, 1, Len(s))

\* position of a key in the byte order url.Values.Encode sorts the keys by
KeyRank(k) ==
    CASE k = "X-Amz-Algorithm" -> 1 [] k = "X-Amz-Credential" -> 2
      [] k = "X-Amz-Date" -> 3 [] k = "X-Amz-Expires" -> 4
      [] k = "X-Amz-Signature" -> 5 [] k = "X-Amz-SignedHeaders" -> 6
      [] k = "_limit" -> 7 [] k = "_offset" -> 8 [] k = "_sort" -> 9
      [] k = "availability-zone" -> 10

\* q.Add(key, value) for a key not added before: the pairs stay in key order
QueryAdd(q, key, value) ==
    LET before == SelectSeq(q, LAMBDA kv : KeyRank(kv[1]) < KeyRank(key))
        after == SelectSeq(q, LAMBDA kv : KeyRank(kv[1]) > KeyRank(key))
    IN before \o <<(<<key, value>>)>> \o after

RECURSIVE EncodeFrom(_, _)
EncodeFrom(q, i) ==
    IF i > Len(q) THEN ""
    ELSE (IF i > 1 THEN "&" ELSE "") \o q[i][1] \o "=" \o QueryEscape(q[i][2])
             \o EncodeFrom(q, i + 1)

\* q.Encode(): "k=v" joined by "&", values escaped
Encode(q) == EncodeFrom(q, 1)

RECURSIVE IndexOf(_, _, _)
\* the first position >= i of the character ch in s, Len(s) + 1 when there is
\* none
IndexOf(s, ch, i) ==
    IF i > Len(s) THEN Len(s) + 1
    ELSE IF CharAt(s, i) = ch THEN i ELSE IndexOf(s, ch, i + 1)

RECURSIVE FindKey(_, _, _)
\* the position where the first "key=value" part of raw at or after position
\* start begins, 0 when raw has no such part
FindKey(raw, key, start) ==
    IF start > Len(raw) THEN 0
    ELSE LET amp == IndexOf(raw, "&", start)
             eq == Min(IndexOf(raw, "=", start), amp)
         IN IF SubSeq(raw, start, eq - 1) = key THEN start
            ELSE FindKey(raw, key, amp + 1)

\* r.URL.Query()[key]: a pointer to the first value of key, Nil when raw has
\* no such key
QueryParam(raw, key) ==
    LET start == FindKey(raw, key, 1)
        amp == IndexOf(raw, "&", start)
        eq == Min(IndexOf(raw, "=", start), amp)
    IN IF start = 0 THEN Nil ELSE Ptr(UnescapeFrom(raw, eq + 1, amp - 1))

\* r.URL.Query().Get(key): the first value of key, "" when the key is absent
QueryGet(raw, key) ==
    IF QueryParam(raw, key) = Nil THEN "" ELSE Deref(QueryParam(raw, key))

\* ------------------------------------------------------------------------
\* imageService.List: the request it builds
\* ------------------------------------------------------------------------

DefaultBasePath == "/compute"

NoListOptions == [Limit |-> Nil, Offset |-> Nil, Sort |-> Nil, AvailabilityZone |-> Nil]
NoFilterOptions == [Sort |-> Nil, AvailabilityZone |-> Nil]

\* every ImageListOptions / ImageFilterOptions value a caller passes
ImageListOptions ==
    [Limit : IntValues, Offset : IntValues, Sort : SortValues, AvailabilityZone : ZoneValues]
ImageFilterOptions == [Sort : SortValues, AvailabilityZone : ZoneValues]

ListQuery_OmitZero(o) ==
    LET q1 == IF o.Limit # Nil /\ Deref(o.Limit) # 0
              THEN QueryAdd(<<>>, "_limit", Itoa(Deref(o.Limit))) ELSE <<>>
        q2 == IF o.Offset # Nil /\ Deref(o.Offset) # 0
              THEN QueryAdd(q1, "_offset", Itoa(Deref(o.Offset))) ELSE q1
        q3 == IF o.Sort # Nil
              THEN QueryAdd(q2, "_sort", Deref(o.Sort)) ELSE q2
        q4 == IF o.AvailabilityZone # Nil
              THEN QueryAdd(q3, "availability-zone", Deref(o.AvailabilityZone)) ELSE q3
    IN q4

\* the q.Add calls of List, in the order of the code
ListQuery(o) ==
    LET q1 == IF o.Limit # Nil
              THEN QueryAdd(<<>>, "_limit", Itoa(Deref(o.Limit))) ELSE <<>>
        q2 == IF o.Offset # Nil
              THEN QueryAdd(q1, "_offset", Itoa(Deref(o.Offset))) ELSE q1
        q3 == IF o.Sort # Nil
              THEN QueryAdd(q2, "_sort", Deref(o.Sort)) ELSE q2
        q4 == IF o.AvailabilityZone # Nil
              THEN QueryAdd(q3, "availability-zone", Deref(o.AvailabilityZone)) ELSE q3
    IN q4

\* the *http.Request List hands to the transport
ListRequest(o) ==
    [method |-> "GET", path |-> DefaultBasePath \o "/v1/images",
     rawQuery |-> Encode(ListQuery(o)), body |-> Nil]

ListResult_ErrorSwallowed(r) ==
    [list |-> IF r.err = NoError THEN r.list
              ELSE Ptr([meta |-> [offset |-> 0, limit |-> 0, count |-> 0, total |-> 0],
                        images |-> <<>>]),
     images |-> <<>>, err |-> NoError]

ListResult_ResponseWithError(r) ==
    [list |-> IF r.err = NoError THEN r.list
              ELSE Ptr([meta |-> [offset |-> 0, limit |-> 0, count |-> 0, total |-> 0],
                        images |-> <<>>]),
     images |-> <<>>, err |-> r.err]

\* what List returns for the outcome r of mgc_http.Do:
\* if err != nil { return nil, err }; return response, nil
ListResult(r) ==
    IF r.err # NoError THEN [list |-> Nil, images |-> <<>>, err |-> r.err]
    ELSE [list |-> r.list, images |-> <<>>, err |-> NoError]

\* s.client.newRequest(ctx, method, path, body) for the request req: it fails
\* for a nil context
newRequest(nilContext, req) ==
    IF nilContext THEN [req |-> Nil, err |-> ErrRequest]
    ELSE [req |-> Ptr(req), err |-> NoError]

\* ------------------------------------------------------------------------
\* imageService.ListAll: the pieces of its loop
\* ------------------------------------------------------------------------

OffsetCell_Shared(c) == 1

\* the storage that holds the local variable offset of goroutine c's call:
\* every call has its own
OffsetCell(c) == c

BuildListOpts_FirstPageOnly(o, currentOffset, currentLimit) ==
    [Limit |-> Ptr(currentLimit), Offset |-> Ptr(currentOffset),
     Sort |-> IF currentOffset = 0 THEN o.Sort ELSE Nil,
     AvailabilityZone |-> IF currentOffset = 0 THEN o.AvailabilityZone ELSE Nil]

\* listOpts := ImageListOptions{Offset: &currentOffset, Limit: &currentLimit, ...}
BuildListOpts(o, currentOffset, currentLimit) ==
    [Limit |-> Ptr(currentLimit), Offset |-> Ptr(currentOffset),
     Sort |-> o.Sort, AvailabilityZone |-> o.AvailabilityZone]

AppendImages_Prepend(all, images) == images \o all

\* allImages = append(allImages, response.Images...)
AppendImages(all, images) == all \o images

Exhausted_PageCap(resp, limit) == Len(resp.images) < limit \/ resp.meta.offset >= limit

Exhausted_ByMetaTotal(resp, limit) ==
    Len(resp.images) < limit \/ resp.meta.offset + Len(resp.images) = resp.meta.total

Exhausted_OnlyEmpty(resp, limit) == Len(resp.images) = 0

Exhausted_OffByOne(resp, limit) == Len(resp.images) <= limit

Exhausted_ByTotal(resp, limit) == resp.meta.offset + resp.meta.count >= resp.meta.total

\* if len(response.Images) < limit { break }
Exhausted(resp, limit) == Len(resp.images) < limit

NextOffset_ByReceived(off, limit, resp) == off + Len(resp.images)

\* offset += limit
NextOffset(off, limit, resp) == off + limit

NextRequests_Prefetch(o, off, limit) ==
    <<ListRequest(BuildListOpts(o, off, limit)),
      ListRequest(BuildListOpts(o, off + limit, limit))>>

\* the requests the loop issues for its next iteration
NextRequests(o, off, limit) == <<ListRequest(BuildListOpts(o, off, limit))>>

ListContext_Background(done) == FALSE

\* the context ListAll hands to List and List to the transport: the caller's
ListContext(done) == done

ListAllFailure_Partial(all, err) == [list |-> Nil, images |-> all, err |-> err]

\* if err != nil { return nil, err }
ListAllFailure(all, err) == [list |-> Nil, images |-> <<>>, err |-> err]

\* return allImages, nil
ListAllSuccess(all) == [list |-> Nil, images |-> all, err |-> NoError]

\* ------------------------------------------------------------------------
\* The transport (mgc_http.Do): one round trip under a context
\* ------------------------------------------------------------------------

\* a response body is Nil when the handler wrote none and else a pointer to
\* what it wrote: a JSON object, as the record of its members, or bytes that
\* are no JSON document
NotJSON(text) == [raw |-> text]
IsJSON(doc) == "raw" \notin DOMAIN doc

StatusError(status) ==
    CASE status = 400 -> ErrValidation
      [] status = 404 -> ErrNotFound
      [] status = 409 -> ErrConflict
      [] status >= 500 -> ErrServer
      [] OTHER -> ErrHTTP

\* the outcome of Do for a context that is done or not and the reply that
\* arrived: the error, the decoded body (list) and the raw body the error
\* retains
Do(done, reply) ==
    IF done THEN [err |-> ErrCanceled, list |-> Nil, body |-> Nil]
    ELSE IF reply.status < 200 \/ reply.status >= 300
         THEN [err |-> StatusError(reply.status), list |-> Nil, body |-> reply.body]
         ELSE IF reply.body = Nil \/ ~IsJSON(Deref(reply.body))
              THEN [err |-> ErrDecoding, list |-> Nil, body |-> Nil]
              ELSE [err |-> NoError, list |-> reply.body, body |-> Nil]

\* mgc_http.ExecuteSimpleRequestWithRespBody[T]: one request built and handed
\* to Do: the error, the JSON object that is decoded into the *T it returns
\* (res) and the raw body the error retains
ExecuteSimpleRequestWithRespBody(done, reply) ==
    LET r == Do(done, reply)
    IN [err |-> r.err, res |-> r.list, body |-> r.body]

\* ------------------------------------------------------------------------
\* customImageService: Create and Get
\* ------------------------------------------------------------------------

\* the CreateCustomImageRequest values a caller passes
CreateCustomImageRequests ==
    {[Name |-> "test-image", Platform |-> "linux", Architecture |-> "x86/64",
      License |-> "unlicensed",
      URL |-> "https://br-se1.magaluobjects.com/bucket/image.qcow2", Version |-> Nil],
     [Name |-> "", Platform |-> "linux", Architecture |-> "arm64",
      License |-> "unlicensed",
      URL |-> "https://br-se1.magaluobjects.com/bucket/image.qcow2",
      Version |-> Ptr("1.0.0")]}

\* the ids a caller of Get passes
CustomImageIDs ==
    {"86a304b0-dc28-454e-9448-5275c4008dfa", "a0db5832-3767-4335-8a89-9b46ce636790"}

\* the JSON object of a CreateCustomImageRequest: the members by their json
\* tags, a nil pointer omitted
MarshalCreateRequest(req) ==
    LET required == [name |-> req.Name, platform |-> req.Platform,
                     architecture |-> req.Architecture, license |-> req.License,
                     url |-> req.URL]
    IN IF req.Version = Nil THEN required
       ELSE [k \in DOMAIN required \cup {"version"} |->
                IF k = "version" THEN Deref(req.Version) ELSE required[k]]

CustomImagesPath == DefaultBasePath \o "/v1/images/custom"

\* the request of Create: POST /v1/images/custom with createReq as its body
CreateRequest(req) ==
    [method |-> "POST", path |-> CustomImagesPath, rawQuery |-> "",
     body |-> Ptr(MarshalCreateRequest(req))]

\* the request of Get: GET /v1/images/custom/<id> without a body
GetRequest(id) ==
    [method |-> "GET", path |-> CustomImagesPath \o "/" \o id, rawQuery |-> "",
     body |-> Nil]

\* the string member name of the JSON object doc, "" when it has none
Member(doc, name) == IF name \in DOMAIN doc THEN doc[name] ELSE ""

\* a response body decoded into struct{ ID string }
DecodeCreated(doc) == [ID |-> Member(doc, "id")]

\* a response body decoded into CustomImage
DecodeCustomImage(doc) ==
    [ID |-> Member(doc, "id"), Name |-> Member(doc, "name"),
     Status |-> Member(doc, "status"), Platform |-> Member(doc, "platform")]

CreateResult_KeepsID(r) ==
    [id |-> IF r.res = Nil THEN "partial" ELSE DecodeCreated(Deref(r.res)).ID,
     err |-> r.err]

CreateResult_ErrorReplaced(r) ==
    IF r.err # NoError THEN [id |-> "", err |-> ErrHTTP]
    ELSE [id |-> DecodeCreated(Deref(r.res)).ID, err |-> NoError]

\* what Create returns for the outcome r of the transport:
\* if err != nil { return "", err }; return res.ID, nil
CreateResult(r) ==
    IF r.err # NoError THEN [id |-> "", err |-> r.err]
    ELSE [id |-> DecodeCreated(Deref(r.res)).ID, err |-> NoError]

\* Get returns the outcome of the transport as it is: the *CustomImage and
\* the error
GetResult(r) ==
    [image |-> IF r.res = Nil THEN Nil ELSE Ptr(DecodeCustomImage(Deref(r.res))),
     err |-> r.err]

\* ------------------------------------------------------------------------
\* The server
\* ------------------------------------------------------------------------

\* generateImageListJSON(start, count): the records img<start> .. img<start+count-1>
GenerateImageList(start, count) == [i \in 1 .. count |-> start + i - 1]

Envelope(off, limit, count, total, images) ==
    [meta |-> [offset |-> off, limit |-> limit, count |-> count, total |-> total],
     images |-> images]

OKReply(envelope) == [status |-> 200, body |-> Ptr(envelope)]

\* the bodies the handlers write with an error status
ErrorBody(status) ==
    CASE status = 400 -> [error |-> "invalid pagination parameters"]
      [] status = 404 -> [message |-> "Image not found"]
      [] status = 409 -> [error |-> "image name already exists"]
      [] OTHER -> [error |-> "internal server error"]

ErrorReply(status) == [status |-> status, body |-> Ptr(ErrorBody(status))]

\* statuses of the error replies
ErrorStatuses == {400, 404, 409, 500, 503}

\* the totals a made-up page reports: none, or more than the server ever sends
MadeUpTotals == {0, 1000}

\* the success statuses of the reply to Create and the ids it generates
CreatedStatuses == {200, 201}
GeneratedIDs == {"8cf5c6d9-d5c5-4af9-bd1b-c17d032dc761"}

CreatedReply(status, id) == [status |-> status, body |-> Ptr([id |-> id])]

\* the custom images the server holds
StoredCustomImages ==
    {[id |-> "86a304b0-dc28-454e-9448-5275c4008dfa", name |-> "test",
      status |-> "active", platform |-> "linux", license |-> "unlicensed"]}

\* the id in the path of the request of Get
RequestID(req) == SubSeq(req.path, Len(CustomImagesPath) + 2, Len(req.path))

\* the stored image of the requested id, a 404 when there is none
FoundReply(req) ==
    LET found == {i \in StoredCustomImages : i.id = RequestID(req)}
    IN IF found = {} THEN ErrorReply(404) ELSE OKReply(CHOOSE i \in found : TRUE)

\* the bodies of a 200 reply that decode as nothing: none written, empty,
\* malformed JSON
UndecodableBodies ==
    {Nil, Ptr(NotJSON("")), Ptr(NotJSON("{\"images\": [{\"id\": \"broken\"}"))}

UndecodableReply(body) == [status |-> 200, body |-> body]

\* the handler's reading of _offset and _limit
RequestOffset(req) ==
    LET a == Atoi(QueryGet(req.rawQuery, "_offset")) IN IF a.ok THEN a.val ELSE 0
RequestLimit(req) ==
    LET a == Atoi(QueryGet(req.rawQuery, "_limit")) IN IF a.ok THEN a.val ELSE PageLimit

\* a server that holds the records img0 .. img<size-1> and answers truthfully;
\* negative pagination values are a 400
HonestReply(req, size) ==
    LET off == RequestOffset(req)
        limit == RequestLimit(req)
        count == Min(limit, Max(0, size - off))
    IN IF off < 0 \/ limit < 0
       THEN ErrorReply(400)
       ELSE OKReply(Envelope(off, limit, count, size, GenerateImageList(off, count)))

\* the test handler: the page is chosen by _offset / 50 and holds whatever the
\* test put there
MadeUpReply(req, count, total) ==
    LET currentPage == GoDiv(RequestOffset(req), 50)
    IN OKReply(Envelope(currentPage * 50, 50, Min(count, total), total,
                        GenerateImageList(currentPage * 50, count)))

IsFullPage(reply) ==
    /\ reply.status = 200 /\ reply.body # Nil
    /\ "images" \in DOMAIN Deref(reply.body)
    /\ Len(Deref(reply.body).images) >= PageLimit

RECURSIVE FullPages(_)
FullPages(log) ==
    IF log = <<>> THEN 0
    ELSE (IF IsFullPage(Head(log)) THEN 1 ELSE 0) + FullPages(Tail(log))

\* ------------------------------------------------------------------------
\* State
\* ------------------------------------------------------------------------

VARIABLES
    pc,          \* goroutine -> "idle" | "waiting" (in mgc_http.Do) | "returned"
    op,          \* goroutine -> "none" | "List" | "ListAll"
    filterOpts,  \* goroutine -> the ImageFilterOptions given to ListAll
    listOpts,    \* goroutine -> the ImageListOptions of the current List call
    ctxDone,     \* goroutine -> the call's context is cancelled
    offset,      \* cell -> ListAll's local offset
    allImages,   \* goroutine -> ListAll's accumulator
    response,    \* goroutine -> the last *ImageList that List returned
    result,      \* goroutine -> what the call returned
    requests,    \* goroutine -> the requests it has put on the network
    network,     \* the requests in flight
    replies,     \* goroutine -> the replies that arrived and are not yet read
    served,      \* goroutine -> the replies the server has sent to it
    errBody,     \* goroutine -> the raw body the returned error retains
    gotID,       \* goroutine -> the id that Create returned
    got          \* goroutine -> the *CustomImage that Get returned

\* the object storage client and its storage-protocol client
VARIABLES
    newArgs,     \* the arguments of the call of objectstorage.New, Nil before it
    newWithEndpointArgs, \* the arguments of the call of NewWithEndpoint, if New
                 \* was called by it
    osClient,    \* the *ObjectStorageClient that New returned
    newErr,      \* the error that New returned
    minioCalls,  \* the calls made on the storage-protocol library, in order
    presignArgs, \* the arguments of the call of GeneratePresignedURL, Nil before it
    presignURL,  \* the *url.URL that GeneratePresignedURL returned
    presignErr   \* the error that GeneratePresignedURL returned

\* the compute client
VARIABLES
    vmArgs,        \* the arguments of the call of compute.New, Nil before it
    vmClient,      \* the *VirtualMachineClient that compute.New returned
    vmOptionCalls  \* the invocations of option functions, in order

\* the in-memory test double in two runs of one test
VARIABLES
    doubles,        \* run -> the mockMinioClient
    mockCall,       \* the call the test made last, Nil before the first
    mockRet,        \* run -> what that call returned
    mockOps,        \* the number of calls made
    lastBucketCall  \* bucket name -> the last of MakeBucket and RemoveBucket
                    \* called with it, "" when neither was

computeVars == <<pc, op, filterOpts, listOpts, ctxDone, offset, allImages, response,
                 result, requests, network, replies, served, errBody, gotID, got>>

storageVars == <<newArgs, newWithEndpointArgs, osClient, newErr, minioCalls,
                 presignArgs, presignURL, presignErr>>

vmVars == <<vmArgs, vmClient, vmOptionCalls>>

doubleVars == <<doubles, mockCall, mockRet, mockOps, lastBucketCall>>

vars == <<computeVars, storageVars, vmVars, doubleVars>>

NoResult == [list |-> Nil, images |-> <<>>, err |-> NoError]

Init ==
    /\ pc = [c \in Goroutines |-> "idle"]
    /\ op = [c \in Goroutines |-> "none"]
    /\ filterOpts = [c \in Goroutines |-> NoFilterOptions]
    /\ listOpts = [c \in Goroutines |-> NoListOptions]
    /\ ctxDone = [c \in Goroutines |-> FALSE]
    /\ offset = [c \in Goroutines |-> 0]
    /\ allImages = [c \in Goroutines |-> <<>>]
    /\ response = [c \in Goroutines |-> Nil]
    /\ result = [c \in Goroutines |-> NoResult]
    /\ requests = [c \in Goroutines |-> <<>>]
    /\ network = {}
    /\ replies = [c \in Goroutines |-> <<>>]
    /\ served = [c \in Goroutines |-> <<>>]
    /\ errBody = [c \in Goroutines |-> Nil]
    /\ gotID = [c \in Goroutines |-> ""]
    /\ got = [c \in Goroutines |-> Nil]
    /\ newArgs = Nil
    /\ newWithEndpointArgs = Nil
    /\ osClient = Nil
    /\ newErr = Nil
    /\ minioCalls = <<>>
    /\ presignArgs = Nil
    /\ presignURL = Nil
    /\ presignErr = Nil
    /\ vmArgs = Nil
    /\ vmClient = Nil
    /\ vmOptionCalls = <<>>
    /\ doubles = [r \in {1, 2} |->
                     [endpoint |-> "br-se1.magaluobjects.com",
                      buckets |-> [b \in {"test-bucket", "other-bucket"} |-> Nil],
                      setAppInfoCalls |-> 0, lastAppName |-> "", lastAppVersion |-> ""]]
    /\ mockCall = Nil
    /\ mockRet = [r \in {1, 2} |-> Nil]
    /\ mockOps = 0
    /\ lastBucketCall = [b \in {"test-bucket", "other-bucket"} |-> ""]

\* the messages for the requests reqs, numbered after the n already sent
Messages_Resent(c, n, reqs) ==
    {[from |-> c, seq |-> n + i + k * Len(reqs), req |-> reqs[i]] :
        i \in 1 .. Len(reqs), k \in {0, 1}}

Messages(c, n, reqs) ==
    {[from |-> c, seq |-> n + i, req |-> reqs[i]] : i \in 1 .. Len(reqs)}

\* ------------------------------------------------------------------------
\* The client's steps
\* ------------------------------------------------------------------------

\* client.Images().List(ctx, o) up to the round trip
CallList(c, o) ==
    /\ pc[c] = "idle"
    /\ pc' = [pc EXCEPT ![c] = "waiting"]
    /\ op' = [op EXCEPT ![c] = "List"]
    /\ listOpts' = [listOpts EXCEPT ![c] = o]
    /\ requests' = [requests EXCEPT ![c] = Append(@, ListRequest(o))]
    /\ network' = network \cup Messages(c, Len(requests[c]), <<ListRequest(o)>>)
    /\ UNCHANGED <<filterOpts, ctxDone, offset, allImages, response, result,
                   replies, served, errBody, gotID, got>>
    /\ UNCHANGED <<storageVars, vmVars, doubleVars>>

\* client.Images().List(nil, o): newRequest fails and List returns its error
\* with a nil list
CallListNilContext(c, o) ==
    /\ pc[c] = "idle"
    /\ newRequest(TRUE, ListRequest(o)).err # NoError
    /\ pc' = [pc EXCEPT ![c] = "returned"]
    /\ op' = [op EXCEPT ![c] = "List"]
    /\ listOpts' = [listOpts EXCEPT ![c] = o]
    /\ result' = [result EXCEPT ![c] =
                      [list |-> Nil, images |-> <<>>,
                       err |-> newRequest(TRUE, ListRequest(o)).err]]
    /\ UNCHANGED <<filterOpts, ctxDone, offset, allImages, response, requests,
                   network, replies, served, errBody, gotID, got>>
    /\ UNCHANGED <<storageVars, vmVars, doubleVars>>

\* List from the return of mgc_http.Do to its own return
ListResume(c) ==
    /\ pc[c] = "waiting"
    /\ op[c] = "List"
    /\ ctxDone[c] \/ replies[c] # <<>>
    /\ LET r == Do(ctxDone[c], IF replies[c] = <<>> THEN ErrorReply(0) ELSE Head(replies[c]))
       IN /\ response' = [response EXCEPT ![c] = ListResult(r).list]
          /\ result' = [result EXCEPT ![c] = ListResult(r)]
          /\ errBody' = [errBody EXCEPT ![c] = r.body]
    /\ replies' = [replies EXCEPT ![c] = IF @ = <<>> THEN @ ELSE Tail(@)]
    /\ pc' = [pc EXCEPT ![c] = "returned"]
    /\ UNCHANGED <<op, filterOpts, listOpts, ctxDone, offset, allImages,
                   requests, network, served, gotID, got>>
    /\ UNCHANGED <<storageVars, vmVars, doubleVars>>

\* client.Images().ListAll(ctx, o) up to the first round trip
CallListAll(c, o) ==
    /\ pc[c] = "idle"
    /\ pc' = [pc EXCEPT ![c] = "waiting"]
    /\ op' = [op EXCEPT ![c] = "ListAll"]
    /\ filterOpts' = [filterOpts EXCEPT ![c] = o]
    /\ offset' = [offset EXCEPT ![OffsetCell(c)] = 0]
    /\ allImages' = [allImages EXCEPT ![c] = <<>>]
    /\ listOpts' = [listOpts EXCEPT ![c] = BuildListOpts(o, 0, PageLimit)]
    /\ requests' = [requests EXCEPT ![c] = @ \o NextRequests(o, 0, PageLimit)]
    /\ network' = network \cup Messages(c, Len(requests[c]), NextRequests(o, 0, PageLimit))
    /\ UNCHANGED <<ctxDone, response, result, replies, served, errBody, gotID, got>>
    /\ UNCHANGED <<storageVars, vmVars, doubleVars>>

\* ListAll from the return of one List call to the next round trip or to its
\* own return
ListAllResume(c) ==
    /\ pc[c] = "waiting"
    /\ op[c] = "ListAll"
    /\ ListContext(ctxDone[c]) \/ replies[c] # <<>>
    /\ LET limit == PageLimit
           r == Do(ListContext(ctxDone[c]), IF replies[c] = <<>> THEN ErrorReply(0) ELSE Head(replies[c]))
           all == AppendImages(allImages[c], Deref(r.list).images)
           off == NextOffset(offset[OffsetCell(c)], limit, Deref(r.list))
       IN /\ replies' = [replies EXCEPT ![c] = IF @ = <<>> THEN @ ELSE Tail(@)]
          /\ response' = [response EXCEPT ![c] = r.list]
          /\ errBody' = [errBody EXCEPT ![c] = r.body]
          /\ IF r.err # NoError
             THEN /\ result' = [result EXCEPT ![c] = ListAllFailure(allImages[c], r.err)]
                  /\ pc' = [pc EXCEPT ![c] = "returned"]
                  /\ UNCHANGED <<offset, allImages, listOpts, requests, network>>
             ELSE IF Exhausted(Deref(r.list), limit)
                  THEN /\ allImages' = [allImages EXCEPT ![c] = all]
                       /\ result' = [result EXCEPT ![c] = ListAllSuccess(all)]
                       /\ pc' = [pc EXCEPT ![c] = "returned"]
                       /\ UNCHANGED <<offset, listOpts, requests, network>>
                  ELSE /\ allImages' = [allImages EXCEPT ![c] = all]
                       /\ offset' = [offset EXCEPT ![OffsetCell(c)] = off]
                       /\ listOpts' = [listOpts EXCEPT ![c] =
                                          BuildListOpts(filterOpts[c], off, limit)]
                       /\ requests' = [requests EXCEPT ![c] =
                                          @ \o NextRequests(filterOpts[c], off, limit)]
                       /\ network' = network \cup
                              Messages(c, Len(requests[c]),
                                       NextRequests(filterOpts[c], off, limit))
                       /\ UNCHANGED <<result, pc>>
    /\ UNCHANGED <<op, filterOpts, ctxDone, served, gotID, got>>
    /\ UNCHANGED <<storageVars, vmVars, doubleVars>>

\* the caller cancels the context of a call that is in progress
Cancel(c) ==
    /\ pc[c] = "waiting"
    /\ ~ctxDone[c]
    /\ ctxDone' = [ctxDone EXCEPT ![c] = TRUE]
    /\ UNCHANGED <<pc, op, filterOpts, listOpts, offset, allImages, response,
                   result, requests, network, replies, served, errBody, gotID, got>>
    /\ UNCHANGED <<storageVars, vmVars, doubleVars>>

\* client.CustomImages().Create(ctx, req) up to the round trip
CallCreate(c, req) ==
    /\ pc[c] = "idle"
    /\ pc' = [pc EXCEPT ![c] = "waiting"]
    /\ op' = [op EXCEPT ![c] = "Create"]
    /\ requests' = [requests EXCEPT ![c] = Append(@, CreateRequest(req))]
    /\ network' = network \cup Messages(c, Len(requests[c]), <<CreateRequest(req)>>)
    /\ UNCHANGED <<filterOpts, listOpts, ctxDone, offset, allImages, response,
                   result, replies, served, errBody, gotID, got>>
    /\ UNCHANGED <<storageVars, vmVars, doubleVars>>

\* Create from the return of the transport to its own return
CreateResume(c) ==
    /\ pc[c] = "waiting"
    /\ op[c] = "Create"
    /\ ctxDone[c] \/ replies[c] # <<>>
    /\ LET r == ExecuteSimpleRequestWithRespBody(
                    ctxDone[c],
                    IF replies[c] = <<>> THEN ErrorReply(0) ELSE Head(replies[c]))
       IN /\ gotID' = [gotID EXCEPT ![c] = CreateResult(r).id]
          /\ result' = [result EXCEPT ![c] =
                            [list |-> Nil, images |-> <<>>, err |-> CreateResult(r).err]]
          /\ errBody' = [errBody EXCEPT ![c] = r.body]
    /\ replies' = [replies EXCEPT ![c] = IF @ = <<>> THEN @ ELSE Tail(@)]
    /\ pc' = [pc EXCEPT ![c] = "returned"]
    /\ UNCHANGED <<op, filterOpts, listOpts, ctxDone, offset, allImages, response,
                   requests, network, served, got>>
    /\ UNCHANGED <<storageVars, vmVars, doubleVars>>

\* client.CustomImages().Get(ctx, id) up to the round trip
CallGet(c, id) ==
    /\ pc[c] = "idle"
    /\ pc' = [pc EXCEPT ![c] = "waiting"]
    /\ op' = [op EXCEPT ![c] = "Get"]
    /\ requests' = [requests EXCEPT ![c] = Append(@, GetRequest(id))]
    /\ network' = network \cup Messages(c, Len(requests[c]), <<GetRequest(id)>>)
    /\ UNCHANGED <<filterOpts, listOpts, ctxDone, offset, allImages, response,
                   result, replies, served, errBody, gotID, got>>
    /\ UNCHANGED <<storageVars, vmVars, doubleVars>>

\* Get from the return of the transport to its own return
GetResume(c) ==
    /\ pc[c] = "waiting"
    /\ op[c] = "Get"
    /\ ctxDone[c] \/ replies[c] # <<>>
    /\ LET r == ExecuteSimpleRequestWithRespBody(
                    ctxDone[c],
                    IF replies[c] = <<>> THEN ErrorReply(0) ELSE Head(replies[c]))
       IN /\ got' = [got EXCEPT ![c] = GetResult(r).image]
          /\ result' = [result EXCEPT ![c] =
                            [list |-> Nil, images |-> <<>>, err |-> GetResult(r).err]]
          /\ errBody' = [errBody EXCEPT ![c] = r.body]
    /\ replies' = [replies EXCEPT ![c] = IF @ = <<>> THEN @ ELSE Tail(@)]
    /\ pc' = [pc EXCEPT ![c] = "returned"]
    /\ UNCHANGED <<op, filterOpts, listOpts, ctxDone, offset, allImages, response,
                   requests, network, served, gotID>>
    /\ UNCHANGED <<storageVars, vmVars, doubleVars>>

\* ------------------------------------------------------------------------
\* compute.New
\* ------------------------------------------------------------------------

\* the core clients a caller passes to compute.New or an option puts in place
VMCoreClients ==
    {Nil, Ptr([UserAgent |-> "mgc-sdk-go"]), Ptr([UserAgent |-> "other-agent"])}

\* the ClientOption functions a caller passes: one that only looks at the
\* client, and one for each core client that puts it in place of the client's
VMClientOptions ==
    {[option |-> "Inspect", core |-> Nil]}
        \cup {[option |-> "SetCoreClient", core |-> k] : k \in VMCoreClients}
VMOptionLists == UNION {[1 .. n -> VMClientOptions] : n \in 0 .. MaxVMOptions}

\* opt(vmClient): the client after the call
ApplyVMOption(opt, vm) ==
    IF opt.option = "SetCoreClient" THEN [vm EXCEPT !.CoreClient = opt.core] ELSE vm

RECURSIVE RunVMOptions(_, _, _, _)
\* for _, opt := range opts { opt(vmClient) }, from the i-th option on: the
\* client after the loop and the invocations made, each with the option and
\* the client it was handed
RunVMOptions(opts, i, vm, calls) ==
    IF i > Len(opts) THEN [client |-> vm, calls |-> calls]
    ELSE RunVMOptions(opts, i + 1, ApplyVMOption(opts[i], vm),
                      Append(calls, [option |-> opts[i], client |-> vm]))

ComputeNewOutcome_OptionsFirst(core, opts) ==
    LET r == RunVMOptions(opts, 1, [CoreClient |-> core], <<>>)
    IN IF core = Nil THEN [client |-> Nil, calls |-> r.calls]
       ELSE [client |-> Ptr(r.client), calls |-> r.calls]

\* compute.New(core, opts...): the client it returns and the invocations of
\* options it makes
ComputeNewOutcome(core, opts) ==
    IF core = Nil THEN [client |-> Nil, calls |-> <<>>]
    ELSE LET r == RunVMOptions(opts, 1, [CoreClient |-> core], <<>>)
         IN [client |-> Ptr(r.client), calls |-> r.calls]

\* compute.New(core, opts...)
ComputeNew(core, opts) ==
    /\ vmArgs = Nil
    /\ vmArgs' = Ptr([core |-> core, opts |-> opts])
    /\ vmClient' = ComputeNewOutcome(core, opts).client
    /\ vmOptionCalls' = vmOptionCalls \o ComputeNewOutcome(core, opts).calls
    /\ UNCHANGED <<computeVars, storageVars, doubleVars>>

\* ------------------------------------------------------------------------
\* The server's steps
\* ------------------------------------------------------------------------

\* the server answers the request m with reply; it serves at most MaxFullPages
\* full pages to one goroutine
Serve(m, reply) ==
    /\ m \in network
    /\ IsFullPage(reply) => FullPages(served[m.from]) < MaxFullPages
    /\ network' = network \ {m}
    /\ replies' = [replies EXCEPT ![m.from] = Append(@, reply)]
    /\ served' = [served EXCEPT ![m.from] = Append(@, reply)]
    /\ UNCHANGED <<pc, op, filterOpts, listOpts, ctxDone, offset, allImages,
                   response, result, requests, errBody, gotID, got>>
    /\ UNCHANGED <<storageVars, vmVars, doubleVars>>

\* the request is one for the image list
IsListRequest(req) == req.method = "GET" /\ req.path = DefaultBasePath \o "/v1/images"

HandlerHonest(c, size) ==
    \E m \in network :
        m.from = c /\ IsListRequest(m.req) /\ Serve(m, HonestReply(m.req, size))

HandlerMadeUp(c, count, total) ==
    \E m \in network :
        m.from = c /\ IsListRequest(m.req) /\ Serve(m, MadeUpReply(m.req, count, total))

\* a List call is answered with every error status, a page request of ListAll
\* with a 500 or a 503, as all statuses fail it alike
HandlerError(c, status) ==
    /\ op[c] = "ListAll" => status >= 500
    /\ \E m \in network : m.from = c /\ Serve(m, ErrorReply(status))

IsCreateRequest(req) == req.method = "POST" /\ req.path = CustomImagesPath

\* strings.HasPrefix(s, prefix)
HasPrefix(s, prefix) == Len(s) >= Len(prefix) /\ SubSeq(s, 1, Len(prefix)) = prefix

IsGetRequest(req) == req.method = "GET" /\ HasPrefix(req.path, CustomImagesPath \o "/")

\* the server creates the image and answers with its id
HandlerCreated(c, status, id) ==
    \E m \in network :
        m.from = c /\ IsCreateRequest(m.req) /\ Serve(m, CreatedReply(status, id))

\* the server looks the requested image up
HandlerFound(c) ==
    \E m \in network : m.from = c /\ IsGetRequest(m.req) /\ Serve(m, FoundReply(m.req))

\* the server answers 200 with a body that decodes as nothing; a page request
\* of ListAll is not answered so, as List fails it like an error status
HandlerUndecodable(c, body) ==
    /\ op[c] # "ListAll"
    /\ \E m \in network : m.from = c /\ Serve(m, UndecodableReply(body))

\* ------------------------------------------------------------------------
\* objectstorage: the errors
\* ------------------------------------------------------------------------

\* &client.ValidationError{Field: field, Message: message}
ValidationError(field, message) ==
    [type |-> "ValidationError", Field |-> field, Message |-> message]

\* &InvalidHTTPMethodError{Method: method}
InvalidHTTPMethodError(method) == [type |-> "InvalidHTTPMethodError", Method |-> method]

\* an error of the storage-protocol library
MinioError(code) == [type |-> "minio.ErrorResponse", Message |-> code]

\* ------------------------------------------------------------------------
\* objectstorage.New
\* ------------------------------------------------------------------------

BrSe1 == "https://br-se1.magaluobjects.com"
BrNe1 == "https://br-ne1.magaluobjects.com"

\* the endpoints a caller passes: the regions, none, and one of another scheme
Endpoints == {BrSe1, BrNe1, "", "ftp://br-se1.magaluobjects.com"}

\* ValidateEndpoint(endpoint): nil for a region of the service
ValidateEndpoint(endpoint) ==
    IF endpoint \in {BrSe1, BrNe1} THEN Nil
    ELSE Ptr([type |-> "errors.errorString", Message |-> "invalid endpoint: " \o endpoint])

\* strings.TrimPrefix(s, prefix)
TrimPrefix(s, prefix) ==
    IF Len(s) >= Len(prefix) /\ SubSeq(s, 1, Len(prefix)) = prefix
    THEN SubSeq(s, Len(prefix) + 1, Len(s)) ELSE s

\* parseEndpoint(endpoint): the host of the endpoint
parseEndpoint(endpoint) ==
    IF endpoint = "" THEN "" ELSE TrimPrefix(TrimPrefix(endpoint, "https://"), "http://")

\* the core clients, access keys and secret keys a caller passes
CoreClients == {Nil, Ptr([UserAgent |-> "mgc-sdk-go"])}
AccessKeys == {"", "minioadmin"}
SecretKeys == {"", "minioadmin"}

\* the storage-protocol clients: the test double, a client of the library the
\* caller built, and the one New builds
MockClient == "mock"
SuppliedClient == "supplied"
CreatedClient == "created"

WithEndpoint(endpoint) == [option |-> "WithEndpoint", endpoint |-> endpoint]
WithMinioClient(minioClient) == [option |-> "WithMinioClient", minioClient |-> minioClient]
WithMinioClientInterface(minioClient) ==
    [option |-> "WithMinioClientInterface", minioClient |-> minioClient]

\* the options a caller passes and the lists of them
ClientOptions ==
    {WithEndpoint(e) : e \in Endpoints}
        \cup {WithMinioClient(SuppliedClient), WithMinioClientInterface(MockClient)}
OptionLists == UNION {[1 .. n -> ClientOptions] : n \in 0 .. MaxOptions}

ApplyOption_EndpointOnly(opt, c) ==
    IF opt.option = "WithEndpoint" THEN [c EXCEPT !.endpoint = opt.endpoint] ELSE c

\* opt(osClient)
ApplyOption(opt, c) ==
    IF opt.option = "WithEndpoint" THEN [c EXCEPT !.endpoint = opt.endpoint]
    ELSE [c EXCEPT !.minioClient = Ptr(opt.minioClient)]

RECURSIVE ApplyOptions_Reversed(_, _, _)
ApplyOptions_Reversed(opts, i, c) ==
    IF i > Len(opts) THEN c
    ELSE ApplyOption(opts[i], ApplyOptions_Reversed(opts, i + 1, c))

RECURSIVE ApplyOptions(_, _, _)
\* for _, opt := range opts { opt(osClient) }, from the i-th option on
ApplyOptions(opts, i, c) ==
    IF i > Len(opts) THEN c ELSE ApplyOptions(opts, i + 1, ApplyOption(opts[i], c))

\* what minio.New returns: the client it built, or an error
MinioNewOutcomes ==
    {[client |-> Ptr(CreatedClient), err |-> Nil],
     [client |-> Nil, err |-> Ptr(MinioError("InvalidArgument"))]}

PreflightError_KeysFirst(core, accessKey, secretKey) ==
    IF accessKey = ""
    THEN Ptr(ValidationError("accessKey", "access key cannot be empty"))
    ELSE IF secretKey = ""
         THEN Ptr(ValidationError("secretKey", "secret key cannot be empty"))
         ELSE IF core = Nil
              THEN Ptr(ValidationError("core", "core client cannot be nil"))
              ELSE Nil

\* the checks of the arguments at the head of New, in the order of the code
PreflightError(core, accessKey, secretKey) ==
    IF core = Nil
    THEN Ptr(ValidationError("core", "core client cannot be nil"))
    ELSE IF accessKey = ""
         THEN Ptr(ValidationError("accessKey", "access key cannot be empty"))
         ELSE IF secretKey = ""
              THEN Ptr(ValidationError("secretKey", "secret key cannot be empty"))
              ELSE Nil

\* osClient.minioClient.SetAppInfo("wrapper", core.GetConfig().UserAgent)
SetAppInfoCall(minioClient, core) ==
    [fn |-> "SetAppInfo", client |-> minioClient, appName |-> "wrapper",
     appVersion |-> Deref(core).UserAgent]

\* minio.New(minioEndpoint, &minio.Options{Creds: ..., Secure: true, ...})
\* returning built
MinioNewCall(endpoint, accessKey, secretKey, built) ==
    [fn |-> "minio.New", endpoint |-> parseEndpoint(endpoint), accessKey |-> accessKey,
     secretKey |-> secretKey, ret |-> built]

\* New(core, accessKey, secretKey, opts...) when minio.New returns built: the
\* client and the error it returns and the calls it makes on the library
NewOutcome(core, accessKey, secretKey, opts, built) ==
    IF PreflightError(core, accessKey, secretKey) # Nil
    THEN [client |-> Nil, err |-> PreflightError(core, accessKey, secretKey),
          calls |-> <<>>]
    ELSE LET c == ApplyOptions(opts, 1, [CoreClient |-> core, minioClient |-> Nil,
                                         endpoint |-> BrSe1])
             invalid == ValidateEndpoint(c.endpoint)
             newCall == MinioNewCall(c.endpoint, accessKey, secretKey, built)
         IN IF invalid # Nil
            THEN [client |-> Nil,
                  err |-> Ptr(ValidationError("endpoint", Deref(invalid).Message)),
                  calls |-> <<>>]
            ELSE IF c.minioClient # Nil
                 THEN [client |-> Ptr(c), err |-> Nil,
                       calls |-> <<SetAppInfoCall(Deref(c.minioClient), core)>>]
                 ELSE IF built.err # Nil
                      THEN [client |-> Nil, err |-> built.err, calls |-> <<newCall>>]
                      ELSE [client |-> Ptr([c EXCEPT !.minioClient = built.client]),
                            err |-> Nil,
                            calls |-> <<newCall,
                                        SetAppInfoCall(Deref(built.client), core)>>]

\* ------------------------------------------------------------------------
\* objectstorage: the Presigner
\* ------------------------------------------------------------------------

\* the arguments a caller of GeneratePresignedURL passes; an expiry is in
\* seconds
Methods == {"GET", "HEAD", "PUT", "DELETE", "get", ""}
BucketNames == {"test-bucket", "other-bucket"}
ObjectKeys == {"test-key", "dir/other key"}
Expiries == {60, 604800}
ReqParams == {<<>>, <<(<<"response-content-type", "text/plain">>)>>}

\* what uuid.NewRandom() and time.Now() return to the test double: the ids
\* drawn and the readings of the clock, with the two layouts the double
\* formats them in
UUIDs == {"0e8a52c5", "7b1f9d33"}
Times ==
    {[date |-> "20260101", time |-> "20260101T000000Z"],
     [date |-> "20260102", time |-> "20260102T093000Z"]}

GenerateURLSignature_ExpiresAt(endpoint, path, expiry, id, now) ==
    LET region == SubSeq(endpoint, 1, IndexOf(endpoint, ".", 1) - 1)
        credential == id \o "/" \o now.date \o "/" \o region \o "/s3/aws4_request"
        q1 == QueryAdd(<<>>, "X-Amz-Algorithm", "AWS4-HMAC-SHA256")
        q2 == QueryAdd(q1, "X-Amz-SignedHeaders", "host")
        q3 == QueryAdd(q2, "X-Amz-Signature", "hmac-" \o id)
        q4 == QueryAdd(q3, "X-Amz-Credential", credential)
        q5 == QueryAdd(q4, "X-Amz-Date", now.time)
        q6 == QueryAdd(q5, "X-Amz-Expires", now.time \o "+" \o Itoa(expiry))
    IN Encode(q6)

\* mockMinioClient.generateURLSignature with the id drawn and the clock
\* reading now: the query string of the signed URL; the HMAC of the URL under
\* the key id is a value that the id determines
GenerateURLSignature(endpoint, path, expiry, id, now) ==
    LET region == SubSeq(endpoint, 1, IndexOf(endpoint, ".", 1) - 1)
        credential == id \o "/" \o now.date \o "/" \o region \o "/s3/aws4_request"
        q1 == QueryAdd(<<>>, "X-Amz-Algorithm", "AWS4-HMAC-SHA256")
        q2 == QueryAdd(q1, "X-Amz-SignedHeaders", "host")
        q3 == QueryAdd(q2, "X-Amz-Signature", "hmac-" \o id)
        q4 == QueryAdd(q3, "X-Amz-Credential", credential)
        q5 == QueryAdd(q4, "X-Amz-Date", now.time)
        q6 == QueryAdd(q5, "X-Amz-Expires", Itoa(expiry))
    IN Encode(q6)

\* mockMinioClient.generateSignedURL: the *url.URL, whose path JoinPath leaves
\* relative
GenerateSignedURL(bucketName, objectName, expiry, id, now) ==
    LET endpoint == "br-se1.magaluobjects.com"
        path == bucketName \o "/" \o objectName
    IN [Scheme |-> "https", Host |-> endpoint, Path |-> path,
        RawQuery |-> GenerateURLSignature(endpoint, path, expiry, id, now)]

\* what a signing operation of the storage-protocol client returns: the URL
\* it signed, or what a hook of the test double or the library makes of the
\* call, an error with or without a URL
PresignOutcomes(bucketName, objectName, expiry) ==
    {[url |-> Ptr(GenerateSignedURL(bucketName, objectName, expiry, id, now)),
      err |-> Nil] : id \in UUIDs, now \in Times}
    \cup {[url |-> Nil, err |-> Ptr(MinioError("AccessDenied"))],
          [url |-> Ptr([Scheme |-> "https", Host |-> "hook", Path |-> "/",
                        RawQuery |-> ""]),
           err |-> Ptr(MinioError("AccessDenied"))]}

SigningOperation_AnyCase(method) ==
    CASE method \in {"GET", "get"} -> "PresignedGetObject"
      [] method = "HEAD" -> "PresignedHeadObject"
      [] method = "PUT" -> "PresignedPutObject"
      [] OTHER -> ""

SigningOperation_HeadAsGet(method) ==
    CASE method \in {"GET", "HEAD"} -> "PresignedGetObject"
      [] method = "PUT" -> "PresignedPutObject"
      [] OTHER -> ""

\* switch method: the signing operation of the case, "" for the default
SigningOperation(method) ==
    CASE method = "GET" -> "PresignedGetObject"
      [] method = "HEAD" -> "PresignedHeadObject"
      [] method = "PUT" -> "PresignedPutObject"
      [] OTHER -> ""

SigningCall_ParamsToAll(fn, minioClient, bucketName, objectKey, expiry, reqParams, ret) ==
    [fn |-> fn, client |-> minioClient, bucketName |-> bucketName,
     objectName |-> objectKey, expiry |-> expiry, reqParams |-> reqParams, ret |-> ret]

\* the call of the signing operation fn on minioClient that returns ret;
\* PresignedPutObject takes no reqParams
SigningCall(fn, minioClient, bucketName, objectKey, expiry, reqParams, ret) ==
    IF fn = "PresignedPutObject"
    THEN [fn |-> fn, client |-> minioClient, bucketName |-> bucketName,
          objectName |-> objectKey, expiry |-> expiry, ret |-> ret]
    ELSE [fn |-> fn, client |-> minioClient, bucketName |-> bucketName,
          objectName |-> objectKey, expiry |-> expiry, reqParams |-> reqParams,
          ret |-> ret]

PresignedResult_Wrapped(ret) ==
    [url |-> IF ret.err # Nil THEN Nil ELSE ret.url,
     err |-> IF ret.err # Nil
             THEN Ptr([type |-> "ObjectError", Operation |-> "presign",
                       Message |-> Deref(ret.err).Message])
             ELSE Nil]

\* return p.client.minioClient.PresignedXObject(...)
PresignedResult(ret) == [url |-> ret.url, err |-> ret.err]

\* GeneratePresignedURL on the client c when the signing operation returns
\* ret: what it returns and the calls it makes on the storage-protocol client
PresignOutcome(c, method, bucketName, objectKey, expiry, reqParams, ret) ==
    IF SigningOperation(method) = ""
    THEN [url |-> Nil, err |-> Ptr(InvalidHTTPMethodError(method)), calls |-> <<>>]
    ELSE [url |-> PresignedResult(ret).url, err |-> PresignedResult(ret).err,
          calls |-> <<SigningCall(SigningOperation(method), Deref(c.minioClient),
                                  bucketName, objectKey, expiry, reqParams, ret)>>]

\* ------------------------------------------------------------------------
\* The steps of the object storage client
\* ------------------------------------------------------------------------

\* objectstorage.New(core, accessKey, secretKey, opts...)
New(core, accessKey, secretKey, opts, built) ==
    /\ newArgs = Nil
    /\ newArgs' = Ptr([core |-> core, accessKey |-> accessKey, secretKey |-> secretKey,
                       opts |-> opts])
    /\ LET r == NewOutcome(core, accessKey, secretKey, opts, built)
       IN /\ osClient' = r.client
          /\ newErr' = r.err
          /\ minioCalls' = minioCalls \o r.calls
    /\ UNCHANGED <<newWithEndpointArgs, presignArgs, presignURL, presignErr>>
    /\ UNCHANGED <<computeVars, vmVars, doubleVars>>

\* NewWithEndpoint(core, endpoint, accessKey, secretKey, opts...):
\* return New(core, accessKey, secretKey, append(opts, WithEndpoint(endpoint))...)
NewWithEndpoint(core, endpoint, accessKey, secretKey, opts, built) ==
    /\ newArgs = Nil
    /\ newWithEndpointArgs' = Ptr([core |-> core, endpoint |-> endpoint,
                                   accessKey |-> accessKey, secretKey |-> secretKey,
                                   opts |-> opts])
    /\ newArgs' = Ptr([core |-> core, accessKey |-> accessKey, secretKey |-> secretKey,
                       opts |-> Append(opts, WithEndpoint(endpoint))])
    /\ LET r == NewOutcome(core, accessKey, secretKey,
                           Append(opts, WithEndpoint(endpoint)), built)
       IN /\ osClient' = r.client
          /\ newErr' = r.err
          /\ minioCalls' = minioCalls \o r.calls
    /\ UNCHANGED <<presignArgs, presignURL, presignErr>>
    /\ UNCHANGED <<computeVars, vmVars, doubleVars>>

\* osClient.Presigner().GeneratePresignedURL(ctx, method, bucketName,
\* objectKey, expiry, reqParams)
GeneratePresignedURL(method, bucketName, objectKey, expiry, reqParams, ret) ==
    /\ osClient # Nil
    /\ presignArgs = Nil
    /\ presignArgs' = Ptr([method |-> method, bucketName |-> bucketName,
                           objectKey |-> objectKey, expiry |-> expiry,
                           reqParams |-> reqParams])
    /\ LET r == PresignOutcome(Deref(osClient), method, bucketName, objectKey, expiry,
                               reqParams, ret)
       IN /\ presignURL' = r.url
          /\ presignErr' = r.err
          /\ minioCalls' = minioCalls \o r.calls
    /\ UNCHANGED <<newArgs, newWithEndpointArgs, osClient, newErr>>
    /\ UNCHANGED <<computeVars, vmVars, doubleVars>>

\* ------------------------------------------------------------------------
\* objectstorage: the in-memory test double (mockMinioClient)
\* ------------------------------------------------------------------------

\* the object keys, policies, CORS configurations, lock settings, object
\* sizes, content types and retentions the tests hand to the double
StoredObjectKeys == {"test-key"}
Policies == {"{\"Version\":\"2012-10-17\"}"}
CorsConfigs == {Ptr([AllowedOrigin |-> "*", AllowedMethod |-> "GET"])}
LockSettings ==
    {[mode |-> Nil, validity |-> Nil, unit |-> Nil],
     [mode |-> Ptr("COMPLIANCE"), validity |-> Ptr(30), unit |-> Ptr("DAYS")]}
ObjectSizes == {11}
ContentTypes == {"text/plain"}
Retentions == {[Mode |-> Ptr("GOVERNANCE"), RetainUntilDate |-> Ptr("2027-01-01T00:00:00Z")]}

\* newMockMinioClient(): no bucket, no override hook, SetAppInfo never called.
\* A map is a function from the keys to a pointer, nil for a key it lacks.
newMockMinioClient ==
    [endpoint |-> "br-se1.magaluobjects.com",
     buckets |-> [b \in BucketNames |-> Nil],
     setAppInfoCalls |-> 0, lastAppName |-> "", lastAppVersion |-> ""]

\* the keys of the map mp, and the orders a range over it may take
Keys(mp) == {k \in DOMAIN mp : mp[k] # Nil}
RangeOrders(mp) ==
    {order \in [1 .. Cardinality(Keys(mp)) -> Keys(mp)] :
        \A i, j \in DOMAIN order : i # j => order[i] # order[j]}

\* minio.ObjectInfo of a stored object
ObjectInfo(obj) ==
    [Key |-> obj.key, Size |-> obj.size, LastModified |-> Ptr(obj.lastModified),
     ETag |-> obj.etag, ContentType |-> obj.contentType]
NoObjectInfo ==
    [Key |-> "", Size |-> 0, LastModified |-> Nil, ETag |-> "", ContentType |-> ""]

\* ListBuckets, the range over m.buckets taking the order given
ListBuckets(m, order) ==
    [m |-> m,
     ret |-> [buckets |-> [i \in DOMAIN order |->
                              [Name |-> Deref(m.buckets[order[i]]).name,
                               CreationDate |-> Deref(m.buckets[order[i]]).creationDate]],
              err |-> Nil]]

MakeBucket_KeepsExisting(m, bucketName, now) ==
    [m |-> IF m.buckets[bucketName] # Nil THEN m
           ELSE [m EXCEPT !.buckets[bucketName] =
                    Ptr([name |-> bucketName, creationDate |-> now, policy |-> "",
                         corsConfig |-> Nil, versioning |-> [Status |-> ""],
                         lockConfig |-> Nil,
                         objects |-> [k \in StoredObjectKeys |-> Nil]])],
     ret |-> [err |-> Nil]]

\* MakeBucket at the clock reading now
MakeBucket(m, bucketName, now) ==
    [m |-> [m EXCEPT !.buckets[bucketName] =
               Ptr([name |-> bucketName, creationDate |-> now, policy |-> "",
                    corsConfig |-> Nil, versioning |-> [Status |-> ""],
                    lockConfig |-> Nil,
                    objects |-> [k \in StoredObjectKeys |-> Nil]])],
     ret |-> [err |-> Nil]]

BucketExists(m, bucketName) ==
    [m |-> m, ret |-> [exists |-> m.buckets[bucketName] # Nil, err |-> Nil]]

RemoveBucket(m, bucketName) ==
    [m |-> [m EXCEPT !.buckets[bucketName] = Nil], ret |-> [err |-> Nil]]

GetBucketPolicy(m, bucketName) ==
    [m |-> m,
     ret |-> [policy |-> IF m.buckets[bucketName] = Nil THEN ""
                         ELSE Deref(m.buckets[bucketName]).policy,
              err |-> Nil]]

SetBucketPolicy_CreatesBucket(m, bucketName, policy) ==
    [m |-> [m EXCEPT !.buckets[bucketName] =
               IF @ = Nil
               THEN Ptr([name |-> bucketName, creationDate |-> CHOOSE t \in Times : TRUE,
                         policy |-> policy, corsConfig |-> Nil,
                         versioning |-> [Status |-> ""], lockConfig |-> Nil,
                         objects |-> [k \in StoredObjectKeys |-> Nil]])
               ELSE Ptr([Deref(@) EXCEPT !.policy = policy])],
     ret |-> [err |-> Nil]]

SetBucketPolicy(m, bucketName, policy) ==
    [m |-> IF m.buckets[bucketName] = Nil THEN m
           ELSE [m EXCEPT !.buckets[bucketName] = Ptr([Deref(@) EXCEPT !.policy = policy])],
     ret |-> [err |-> Nil]]

GetObjectLockConfig(m, bucketName) ==
    [m |-> m,
     ret |-> IF m.buckets[bucketName] = Nil
                  \/ Deref(m.buckets[bucketName]).lockConfig = Nil
             THEN [objectLock |-> "", mode |-> Nil, validity |-> Nil, unit |-> Nil,
                   err |-> Nil]
             ELSE LET lock == Deref(Deref(m.buckets[bucketName]).lockConfig)
                  IN [objectLock |-> lock.objectLock, mode |-> lock.mode,
                      validity |-> lock.validity, unit |-> lock.unit, err |-> Nil]]

SetObjectLockConfig(m, bucketName, mode, validity, unit) ==
    [m |-> IF m.buckets[bucketName] = Nil THEN m
           ELSE [m EXCEPT !.buckets[bucketName] =
                    Ptr([Deref(@) EXCEPT !.lockConfig =
                            IF mode = Nil /\ validity = Nil /\ unit = Nil THEN Nil
                            ELSE Ptr([objectLock |-> "Enabled", mode |-> mode,
                                      validity |-> validity, unit |-> unit])])],
     ret |-> [err |-> Nil]]

GetBucketCors(m, bucketName) ==
    [m |-> m,
     ret |-> [cors |-> IF m.buckets[bucketName] = Nil THEN Nil
                       ELSE Deref(m.buckets[bucketName]).corsConfig,
              err |-> Nil]]

SetBucketCors(m, bucketName, corsConfig) ==
    [m |-> IF m.buckets[bucketName] = Nil THEN m
           ELSE [m EXCEPT !.buckets[bucketName] =
                    Ptr([Deref(@) EXCEPT !.corsConfig = corsConfig])],
     ret |-> [err |-> Nil]]

GetBucketVersioning(m, bucketName) ==
    [m |-> m,
     ret |-> [versioning |-> IF m.buckets[bucketName] = Nil THEN [Status |-> ""]
                             ELSE Deref(m.buckets[bucketName]).versioning,
              err |-> Nil]]

\* EnableVersioning and SuspendVersioning: bucket.versioning.Status = status
SetVersioningStatus(m, bucketName, status) ==
    [m |-> IF m.buckets[bucketName] = Nil THEN m
           ELSE [m EXCEPT !.buckets[bucketName] =
                    Ptr([Deref(@) EXCEPT !.versioning.Status = status])],
     ret |-> [err |-> Nil]]

EnableVersioning(m, bucketName) == SetVersioningStatus(m, bucketName, "Enabled")
SuspendVersioning(m, bucketName) == SetVersioningStatus(m, bucketName, "Suspended")

\* PutObject at the clock reading now
PutObject(m, bucketName, objectName, objectSize, contentType, now) ==
    IF m.buckets[bucketName] = Nil
    THEN [m |-> m,
          ret |-> [info |-> [Bucket |-> "", Key |-> "", ETag |-> "", Size |-> 0],
                   err |-> Nil]]
    ELSE [m |-> [m EXCEPT !.buckets[bucketName] =
                    Ptr([Deref(@) EXCEPT !.objects[objectName] =
                            Ptr([key |-> objectName, size |-> objectSize,
                                 lastModified |-> now, etag |-> "mock-etag",
                                 contentType |-> contentType, retention |-> Nil])])],
          ret |-> [info |-> [Bucket |-> bucketName, Key |-> objectName,
                             ETag |-> "mock-etag", Size |-> objectSize],
                   err |-> Nil]]

GetObject(m, bucketName, objectName) == [m |-> m, ret |-> [object |-> Nil, err |-> Nil]]

\* ListObjects: what the channel delivers, the range over bucket.objects
\* taking the order given
ListObjects(m, bucketName, order) ==
    [m |-> m,
     ret |-> [objects |-> IF m.buckets[bucketName] = Nil THEN <<>>
                          ELSE [i \in DOMAIN order |->
                                   ObjectInfo(Deref(Deref(m.buckets[bucketName])
                                                        .objects[order[i]]))]]]

RemoveObject(m, bucketName, objectName) ==
    [m |-> IF m.buckets[bucketName] = Nil THEN m
           ELSE [m EXCEPT !.buckets[bucketName] =
                    Ptr([Deref(@) EXCEPT !.objects[objectName] = Nil])],
     ret |-> [err |-> Nil]]

StatObject(m, bucketName, objectName) ==
    [m |-> m,
     ret |-> [info |-> IF m.buckets[bucketName] = Nil
                            \/ Deref(m.buckets[bucketName]).objects[objectName] = Nil
                       THEN NoObjectInfo
                       ELSE ObjectInfo(Deref(Deref(m.buckets[bucketName])
                                                .objects[objectName])),
              err |-> Nil]]

PutObjectRetention(m, bucketName, objectName, opts) ==
    [m |-> IF m.buckets[bucketName] = Nil
                \/ Deref(m.buckets[bucketName]).objects[objectName] = Nil
           THEN m
           ELSE [m EXCEPT !.buckets[bucketName] =
                    Ptr([Deref(@) EXCEPT !.objects[objectName] =
                            Ptr([Deref(@) EXCEPT !.retention =
                                    Ptr([mode |-> opts.Mode,
                                         retainUntilDate |-> opts.RetainUntilDate])])])],
     ret |-> [err |-> Nil]]

GetObjectRetention(m, bucketName, objectName) ==
    [m |-> m,
     ret |-> IF m.buckets[bucketName] = Nil
                  \/ Deref(m.buckets[bucketName]).objects[objectName] = Nil
                  \/ Deref(Deref(m.buckets[bucketName]).objects[objectName]).retention = Nil
             THEN [mode |-> Nil, retainUntilDate |-> Nil, err |-> Nil]
             ELSE LET retention ==
                          Deref(Deref(Deref(m.buckets[bucketName]).objects[objectName])
                                    .retention)
                  IN [mode |-> retention.mode,
                      retainUntilDate |-> retention.retainUntilDate, err |-> Nil]]

\* SetAppInfo returns nothing
SetAppInfo(m, appName, appVersion) ==
    [m |-> [m EXCEPT !.setAppInfoCalls = @ + 1, !.lastAppName = appName,
                     !.lastAppVersion = appVersion],
     ret |-> [returned |-> TRUE]]

\* m.generateSignedURL for the arguments the tests sign with, tabulated by
\* the arguments, the id drawn and the clock reading
SignedArguments ==
    [bucketName : {"test-bucket"}, objectName : StoredObjectKeys, expiry : {60},
     id : UUIDs, now : Times]
SignedURLs ==
    {[args |-> a,
      url |-> GenerateSignedURL(a.bucketName, a.objectName, a.expiry, a.id, a.now)] :
        a \in SignedArguments}

\* PresignedGetObject, PresignedHeadObject and PresignedPutObject with the id
\* drawn and the clock reading now: return m.generateSignedURL(...)
PresignedObject(m, bucketName, objectName, expiry, id, now) ==
    LET a == [bucketName |-> bucketName, objectName |-> objectName, expiry |-> expiry,
              id |-> id, now |-> now]
    IN [m |-> m,
        ret |-> [url |-> Ptr((CHOOSE e \in SignedURLs : e.args = a).url), err |-> Nil]]

\* the two runs of one sequence of calls, each on a fresh double
Runs == {1, 2}

\* the calls the tests make on the double: the operation and its arguments
BucketOperations ==
    {"GetBucketPolicy", "GetObjectLockConfig", "GetBucketCors", "GetBucketVersioning",
     "EnableVersioning", "SuspendVersioning", "ListObjects"}
ObjectOperations == {"GetObject", "RemoveObject", "StatObject", "GetObjectRetention"}
SigningOperations == {"PresignedGetObject", "PresignedHeadObject", "PresignedPutObject"}

\* MakeBucket, RemoveBucket and BucketExists are called with either bucket name,
\* the other operations with "test-bucket"
MockCalls ==
    {[fn |-> fn, bucketName |-> "", objectName |-> "", arg |-> Nil] :
        fn \in {"ListBuckets", "SetAppInfo"}}
    \cup {[fn |-> fn, bucketName |-> b, objectName |-> "", arg |-> Nil] :
            fn \in {"MakeBucket", "RemoveBucket", "BucketExists"}, b \in BucketNames}
    \cup {[fn |-> fn, bucketName |-> "test-bucket", objectName |-> "", arg |-> Nil] :
            fn \in BucketOperations}
    \cup {[fn |-> "SetBucketPolicy", bucketName |-> "test-bucket", objectName |-> "",
           arg |-> Ptr(p)] : p \in Policies}
    \cup {[fn |-> "SetObjectLockConfig", bucketName |-> "test-bucket", objectName |-> "",
           arg |-> Ptr(l)] : l \in LockSettings}
    \cup {[fn |-> "SetBucketCors", bucketName |-> "test-bucket", objectName |-> "",
           arg |-> c] : c \in CorsConfigs}
    \cup {[fn |-> fn, bucketName |-> "test-bucket", objectName |-> k, arg |-> Nil] :
            fn \in ObjectOperations, k \in StoredObjectKeys}
    \cup {[fn |-> "PutObject", bucketName |-> "test-bucket", objectName |-> k,
           arg |-> Ptr([size |-> n, contentType |-> t])] :
            k \in StoredObjectKeys, n \in ObjectSizes, t \in ContentTypes}
    \cup {[fn |-> "PutObjectRetention", bucketName |-> "test-bucket", objectName |-> k,
           arg |-> Ptr(o)] : k \in StoredObjectKeys, o \in Retentions}
    \cup {[fn |-> fn, bucketName |-> "test-bucket", objectName |-> "test-key",
           arg |-> Ptr(60)] : fn \in SigningOperations}

\* what a call on the double m draws from outside the double: a random id, a
\* reading of the clock, the order of a range over a map
NoChoice == [id |-> "", now |-> Nil, order |-> <<>>]
Choices(m, call) ==
    CASE call.fn \in {"MakeBucket", "PutObject"} ->
            {[id |-> "", now |-> Ptr(t), order |-> <<>>] : t \in Times}
      [] call.fn \in SigningOperations ->
            {[id |-> id, now |-> Ptr(t), order |-> <<>>] : id \in UUIDs, t \in Times}
      [] call.fn = "ListBuckets" ->
            {[id |-> "", now |-> Nil, order |-> o] : o \in RangeOrders(m.buckets)}
      [] call.fn = "ListObjects" /\ m.buckets[call.bucketName] # Nil ->
            {[id |-> "", now |-> Nil, order |-> o] :
                o \in RangeOrders(Deref(m.buckets[call.bucketName]).objects)}
      [] OTHER -> {NoChoice}

\* the call on the double m with the choice ch: the double after it and what
\* the call returns
Call(m, call, ch) ==
    LET b == call.bucketName
        k == call.objectName
    IN CASE call.fn = "ListBuckets" -> ListBuckets(m, ch.order)
         [] call.fn = "MakeBucket" -> MakeBucket(m, b, Deref(ch.now))
         [] call.fn = "BucketExists" -> BucketExists(m, b)
         [] call.fn = "RemoveBucket" -> RemoveBucket(m, b)
         [] call.fn = "GetBucketPolicy" -> GetBucketPolicy(m, b)
         [] call.fn = "SetBucketPolicy" -> SetBucketPolicy(m, b, Deref(call.arg))
         [] call.fn = "GetObjectLockConfig" -> GetObjectLockConfig(m, b)
         [] call.fn = "SetObjectLockConfig" ->
                SetObjectLockConfig(m, b, Deref(call.arg).mode, Deref(call.arg).validity,
                                    Deref(call.arg).unit)
         [] call.fn = "GetBucketCors" -> GetBucketCors(m, b)
         [] call.fn = "SetBucketCors" -> SetBucketCors(m, b, call.arg)
         [] call.fn = "GetBucketVersioning" -> GetBucketVersioning(m, b)
         [] call.fn = "EnableVersioning" -> EnableVersioning(m, b)
         [] call.fn = "SuspendVersioning" -> SuspendVersioning(m, b)
         [] call.fn = "PutObject" ->
                PutObject(m, b, k, Deref(call.arg).size, Deref(call.arg).contentType,
                          Deref(ch.now))
         [] call.fn = "GetObject" -> GetObject(m, b, k)
         [] call.fn = "ListObjects" -> ListObjects(m, b, ch.order)
         [] call.fn = "RemoveObject" -> RemoveObject(m, b, k)
         [] call.fn = "StatObject" -> StatObject(m, b, k)
         [] call.fn = "PutObjectRetention" -> PutObjectRetention(m, b, k, Deref(call.arg))
         [] call.fn = "GetObjectRetention" -> GetObjectRetention(m, b, k)
         [] call.fn = "SetAppInfo" -> SetAppInfo(m, "wrapper", "mgc-sdk-go")
         [] call.fn \in SigningOperations ->
                PresignedObject(m, b, k, Deref(call.arg), ch.id, Deref(ch.now))

\* the test makes its next call, in both runs; each run draws its own choice
MockCall(call, ch1, ch2) ==
    /\ mockOps < MaxMockOps
    /\ mockOps' = mockOps + 1
    /\ mockCall' = Ptr(call)
    /\ LET out == [r \in Runs |-> Call(doubles[r], call, IF r = 1 THEN ch1 ELSE ch2)]
       IN /\ doubles' = [r \in Runs |-> out[r].m]
          /\ mockRet' = [r \in Runs |-> Ptr(out[r].ret)]
    /\ lastBucketCall' =
           IF call.fn \in {"MakeBucket", "RemoveBucket"}
           THEN [lastBucketCall EXCEPT ![call.bucketName] = call.fn]
           ELSE lastBucketCall
    /\ UNCHANGED <<computeVars, storageVars, vmVars>>

\* ------------------------------------------------------------------------
\* Specifications
\* ------------------------------------------------------------------------

\* one caller against a server that may answer anything
Next ==
    \/ \E o \in ImageListOptions : CallList(1, o)
    \/ \E o \in ImageListOptions : CallListNilContext(1, o)
    \/ ListResume(1)
    \/ \E o \in ImageFilterOptions : CallListAll(1, o)
    \/ ListAllResume(1)
    \/ Cancel(1)
    \/ \E size \in DataSizes : HandlerHonest(1, size)
    \/ \E count \in PageCounts, total \in MadeUpTotals : HandlerMadeUp(1, count, total)
    \/ \E status \in ErrorStatuses : HandlerError(1, status)
    \/ \E req \in CreateCustomImageRequests : CallCreate(1, req)
    \/ CreateResume(1)
    \/ \E id \in CustomImageIDs : CallGet(1, id)
    \/ GetResume(1)
    \/ \E status \in CreatedStatuses, id \in GeneratedIDs : HandlerCreated(1, status, id)
    \/ HandlerFound(1)
    \/ \E body \in UndecodableBodies : HandlerUndecodable(1, body)

Spec == Init /\ [][Next]_vars

\* the options of the callers whose interleaving or progress is examined
ConcFilterOptions ==
    {NoFilterOptions, [Sort |-> Ptr("platform:asc"), AvailabilityZone |-> Nil]}

\* one ListAll call against a server whose data set changes between the
\* requests
NextFair ==
    \/ \E o \in ConcFilterOptions : CallListAll(1, o)
    \/ ListAllResume(1)
    \/ Cancel(1)
    \/ \E size \in DataSizes : HandlerHonest(1, size)
    \/ HandlerError(1, 500)

\* that call when the goroutine runs whenever it can and no request waits for
\* ever: an error reply is possible exactly while a request of the goroutine
\* is on the network, so its weak fairness holds exactly when every request is
\* answered in the end, by whichever reply
FairSpec ==
    /\ Init /\ [][NextFair]_vars
    /\ WF_vars(ListAllResume(1))
    /\ WF_vars(HandlerError(1, 500))

\* the inputs of the concurrent callers
ConcListOptions ==
    {NoListOptions,
     [Limit |-> Ptr(1), Offset |-> Ptr(1), Sort |-> Nil, AvailabilityZone |-> Ptr("zone1")]}
ConcDataSizes == {0, MaxFullPages * PageLimit + PageLimit \div 2}

\* two goroutines calling List and ListAll on one client at the same time
NextConc ==
    \E c \in Goroutines :
        \/ \E o \in ConcListOptions : CallList(c, o)
        \/ ListResume(c)
        \/ \E o \in ConcFilterOptions : CallListAll(c, o)
        \/ ListAllResume(c)
        \/ \E size \in ConcDataSizes : HandlerHonest(c, size)
        \/ HandlerError(c, 500)

SpecConc == Init /\ [][NextConc]_vars

\* a caller that builds an object storage client and signs one URL with it
NextStorage ==
    \/ \E core \in CoreClients, accessKey \in AccessKeys, secretKey \in SecretKeys,
          opts \in OptionLists, built \in MinioNewOutcomes :
            New(core, accessKey, secretKey, opts, built)
    \/ \E method \in Methods, bucketName \in BucketNames, objectKey \in ObjectKeys,
          expiry \in Expiries, reqParams \in ReqParams :
            \E ret \in PresignOutcomes(bucketName, objectKey, expiry) :
                GeneratePresignedURL(method, bucketName, objectKey, expiry, reqParams, ret)

SpecStorage == Init /\ [][NextStorage]_vars

\* a caller that builds an object storage client, by New or by NewWithEndpoint
NextNew ==
    \/ \E core \in CoreClients, accessKey \in AccessKeys, secretKey \in SecretKeys,
          opts \in OptionLists, built \in MinioNewOutcomes :
            New(core, accessKey, secretKey, opts, built)
    \/ \E core \in CoreClients, endpoint \in Endpoints, accessKey \in AccessKeys,
          secretKey \in SecretKeys, opts \in OptionLists, built \in MinioNewOutcomes :
            NewWithEndpoint(core, endpoint, accessKey, secretKey, opts, built)

SpecNew == Init /\ [][NextNew]_vars

\* a caller that builds a compute client
NextComputeNew ==
    \E core \in VMCoreClients, opts \in VMOptionLists : ComputeNew(core, opts)

SpecComputeNew == Init /\ [][NextComputeNew]_vars

\* a test that makes the same calls on a fresh double in each of two runs
NextDouble ==
    \E call \in MockCalls :
        \E ch1 \in Choices(doubles[1], call), ch2 \in Choices(doubles[2], call) :
            MockCall(call, ch1, ch2)

SpecDouble == Init /\ [][NextDouble]_vars

\* ------------------------------------------------------------------------
\* What the server sent, read back from its log
\* ------------------------------------------------------------------------

IsOKReply(reply) == reply.status = 200 /\ reply.body # Nil /\ IsJSON(Deref(reply.body))

PageOf(reply) == Deref(reply.body).images

RECURSIVE Flatten(_)
\* the records of the replies of log, in the order they were sent
Flatten(log) ==
    IF log = <<>> THEN <<>> ELSE PageOf(Head(log)) \o Flatten(Tail(log))

RECURSIVE SumCounts(_)
SumCounts(log) ==
    IF log = <<>> THEN 0 ELSE Len(PageOf(Head(log))) + SumCounts(Tail(log))

\* k pages of exactly PageLimit records followed by one page with fewer
ExactPaging(log) ==
    /\ log # <<>>
    /\ \A i \in 1 .. Len(log) : IsOKReply(log[i])
    /\ \A i \in 1 .. Len(log) - 1 : Len(PageOf(log[i])) = PageLimit
    /\ Len(PageOf(log[Len(log)])) < PageLimit

\* goroutine c reads a reply in this step
ReadsReply(c) == Len(replies'[c]) < Len(replies[c])

\* ------------------------------------------------------------------------
\* Claims
\* ------------------------------------------------------------------------

\* C1: when the server answers k pages of exactly 50 records and then one
\* page with fewer than 50 (possibly none), ListAll returns, without error, the
\* concatenation of all the pages in page order; its length is the sum of the
\* page counts.
C1_ListAllConcatenatesPages ==
    \A c \in Goroutines :
        (op[c] = "ListAll" /\ ~ctxDone[c] /\ ExactPaging(served[c]) /\ replies[c] = <<>>)
            => /\ pc[c] = "returned"
               /\ result[c].err = NoError
               /\ result[c].images = Flatten(served[c])
               /\ Len(result[c].images) = SumCounts(served[c])

C1_Witness ==
    /\ op[1] = "ListAll" /\ pc[1] = "returned" /\ ~ctxDone[1]
    /\ ExactPaging(served[1])
    /\ Len(served[1]) >= 3
    /\ Len(result[1].images) = (Len(served[1]) - 1) * PageLimit + PageLimit \div 2

\* C2: when List fails at any page, ListAll returns the error with a nil
\* result; the records of earlier pages are not returned with it.
C2_NoPartialResultOnError ==
    \A c \in Goroutines :
        (op[c] = "ListAll" /\ pc[c] = "returned" /\ result[c].err # NoError)
            => result[c].images = <<>> /\ result[c].list = Nil

C2_Witness ==
    /\ op[1] = "ListAll" /\ pc[1] = "returned" /\ ~ctxDone[1]
    /\ result[1].err = ErrServer
    /\ Len(requests[1]) = 3
    /\ Len(allImages[1]) >= 2 * PageLimit

\* C3: ListAll stops after the first page with fewer than 50 records and
\* continues after every page with 50 or more, whatever meta.page.total and
\* meta.page.count say.
C3_ContinuesOnRecordCountOnly ==
    [][\A c \in Goroutines :
          (op[c] = "ListAll" /\ pc[c] = "waiting" /\ ~ctxDone[c] /\ ReadsReply(c)
             /\ IsOKReply(Head(replies[c])))
          => IF Len(PageOf(Head(replies[c]))) < PageLimit
             THEN pc'[c] = "returned" /\ requests'[c] = requests[c]
             ELSE /\ pc'[c] = "waiting"
                  /\ Len(requests'[c]) = Len(requests[c]) + 1]_vars

C3_Witness ==
    /\ op[1] = "ListAll" /\ pc[1] = "waiting"
    /\ Len(requests[1]) = 2
    /\ response[1] # Nil
    /\ Deref(response[1]).meta.total = 0
    /\ Deref(response[1]).meta.count = 0
    /\ Len(Deref(response[1]).images) >= PageLimit
    /\ RequestOffset(requests[1][2]) = PageLimit

\* every reply sent to goroutine c is the truthful page of one unchanging data
\* set, whose size the first reply reports
Truthful(c) ==
    /\ served[c] # <<>>
    /\ Len(served[c]) <= Len(requests[c])
    /\ IsOKReply(served[c][1])
    /\ \A i \in 1 .. Len(served[c]) :
           served[c][i] = HonestReply(requests[c][i], Deref(served[c][1].body).meta.total)

\* C4 as stated: meta.page.total bounds the pagination: no page is requested
\* at an offset greater than or equal to the total of the previous response,
\* and the number of records returned never exceeds that total.
C4_TotalBoundsPagination ==
    \A c \in Goroutines :
        op[c] = "ListAll" =>
            /\ (pc[c] = "waiting" /\ response[c] # Nil)
                   => Deref(listOpts[c].Offset) < Deref(response[c]).meta.total
            /\ (pc[c] = "returned" /\ result[c].err = NoError)
                   => Len(result[c].images) <= Deref(response[c]).meta.total

\* C4 amended: ListAll never reads meta.page.total.  Only when every reply of
\* the call is the truthful page of one unchanging data set does the total
\* bound the pagination, and then no page is requested at an offset greater
\* than the total (a page at the offset equal to the total is requested when
\* the total is a positive multiple of 50) and the number of records returned
\* equals the total.
C4_TotalBoundsTruthfulPagination ==
    \A c \in Goroutines :
        (op[c] = "ListAll" /\ replies[c] = <<>> /\ response[c] # Nil /\ Truthful(c)) =>
            /\ pc[c] = "waiting"
                   => Deref(listOpts[c].Offset) <= Deref(response[c]).meta.total
            /\ (pc[c] = "returned" /\ result[c].err = NoError)
                   => Len(result[c].images) = Deref(response[c]).meta.total

C4_Witness ==
    /\ op[1] = "ListAll" /\ pc[1] = "returned" /\ result[1].err = NoError
    /\ Truthful(1) /\ replies[1] = <<>>
    /\ Len(requests[1]) = 2
    /\ RequestOffset(requests[1][2]) = PageLimit
    /\ Deref(response[1]).meta.total = PageLimit

\* the requests of goroutine c that are on the network or answered and unread
InFlight(c) == Cardinality({m \in network : m.from = c}) + Len(replies[c])

\* C5: the pages of one ListAll call are requested one after another in
\* increasing-offset order: a page is requested only after the response to the
\* page before has been received and appended, and two requests of one call
\* are never in flight together.
C5_PagesAreSequential ==
    /\ [](\A c \in Goroutines :
            op[c] = "ListAll" =>
                /\ InFlight(c) <= 1
                /\ \A i \in 1 .. Len(requests[c]) - 1 :
                       RequestOffset(requests[c][i]) < RequestOffset(requests[c][i + 1]))
    /\ [][\A c \in Goroutines :
            (op[c] = "ListAll" /\ requests'[c] # requests[c])
                => /\ Len(requests'[c]) = Len(requests[c]) + 1
                   /\ {m \in network : m.from = c} = {}
                   /\ Len(replies[c]) = 1
                   /\ replies'[c] = <<>>
                   /\ allImages'[c] = allImages[c] \o PageOf(Head(replies[c]))]_vars

C5_Witness ==
    /\ op[1] = "ListAll" /\ pc[1] = "waiting"
    /\ Len(requests[1]) = 3
    /\ InFlight(1) = 1
    /\ Len(allImages[1]) >= 2 * PageLimit

\* C6: the i-th request of a ListAll call carries _limit=50 and
\* _offset=50*(i-1); the offset advances by exactly 50 after a full page,
\* never by the number of records received.
C6_OffsetsAreMultiplesOfLimit ==
    \A c \in Goroutines :
        op[c] = "ListAll" =>
            \A i \in 1 .. Len(requests[c]) :
                /\ QueryGet(requests[c][i].rawQuery, "_limit") = "50"
                /\ QueryGet(requests[c][i].rawQuery, "_offset") = Itoa(50 * (i - 1))

C6_Witness ==
    /\ op[1] = "ListAll" /\ pc[1] = "waiting"
    /\ Len(allImages[1]) = PageLimit + 1
    /\ Len(requests[1]) = 2
    /\ QueryGet(requests[1][2].rawQuery, "_offset") = "50"

\* C7: every page request of one ListAll call carries the _sort and
\* availability-zone values of the caller's ImageFilterOptions, omits them when
\* they are absent, and the caller's options are not modified.
C7_FiltersUnchangedAcrossPages ==
    /\ [](\A c \in Goroutines :
            op[c] = "ListAll" =>
                \A i \in 1 .. Len(requests[c]) :
                    /\ QueryParam(requests[c][i].rawQuery, "_sort") = filterOpts[c].Sort
                    /\ QueryParam(requests[c][i].rawQuery, "availability-zone")
                           = filterOpts[c].AvailabilityZone)
    /\ [][\A c \in Goroutines : pc[c] # "idle" => filterOpts'[c] = filterOpts[c]]_vars

C7_Witness ==
    /\ op[1] = "ListAll"
    /\ Len(requests[1]) = 3
    /\ filterOpts[1].Sort = Ptr("platform:asc")
    /\ filterOpts[1].AvailabilityZone = Nil
    /\ requests[1][3].rawQuery = "_limit=50&_offset=100&_sort=platform%3Aasc"

\* C8: ListAll terminates once the server returns a page with fewer than 50
\* records or an error, also when the data set shrinks between the page
\* requests: the call returns and issues no request after the short page.
C8_ListAllTerminates ==
    /\ \A c \in Goroutines :
           (op[c] = "ListAll" /\ pc[c] = "waiting") ~> (pc[c] = "returned")
    /\ [][\A c \in Goroutines :
            op[c] = "ListAll" =>
                /\ (pc[c] = "waiting" /\ ReadsReply(c) /\ ~IsFullPage(Head(replies[c])))
                       => pc'[c] = "returned" /\ requests'[c] = requests[c]
                /\ pc[c] = "returned"
                       => pc'[c] = "returned" /\ requests'[c] = requests[c]]_vars

C8_Witness ==
    /\ op[1] = "ListAll" /\ pc[1] = "returned" /\ result[1].err = NoError
    /\ Len(served[1]) = 2
    /\ served[1][1] = HonestReply(requests[1][1], MaxFullPages * PageLimit + PageLimit \div 2)
    /\ served[1][2] = HonestReply(requests[1][2], PageLimit)
    /\ Len(result[1].images) = PageLimit

\* C9: once the context of a ListAll call is cancelled while the pagination
\* is in progress, no further page is requested, nothing more is accumulated,
\* and ListAll returns the cancellation error with a nil result.
C9_CancellationAborts ==
    /\ [][\A c \in Goroutines :
            (op[c] = "ListAll" /\ ctxDone[c])
                => /\ requests'[c] = requests[c]
                   /\ allImages'[c] = allImages[c]
                   /\ pc'[c] \in {pc[c], "returned"}
                   /\ ReadsReply(c) => pc'[c] = "returned"]_vars
    /\ [](\A c \in Goroutines :
            (op[c] = "ListAll" /\ ctxDone[c] /\ pc[c] = "returned")
                => result[c] = [list |-> Nil, images |-> <<>>, err |-> ErrCanceled])

C9_Witness ==
    /\ op[1] = "ListAll" /\ pc[1] = "returned" /\ ctxDone[1]
    /\ Len(allImages[1]) >= PageLimit
    /\ Len(requests[1]) = 2
    /\ result[1].err = ErrCanceled
    /\ result[1].images = <<>>

RECURSIVE ListAllAlone(_, _, _, _)
\* ListAll run on its own with the options o against the replies of log, from
\* the offset off with all accumulated: the requests it issues and, when log
\* takes it to its return, what it returns
ListAllAlone(o, log, off, all) ==
    LET req == ListRequest([Limit |-> Ptr(PageLimit), Offset |-> Ptr(off),
                            Sort |-> o.Sort, AvailabilityZone |-> o.AvailabilityZone])
    IN IF log = <<>>
       THEN [requests |-> <<req>>, returned |-> FALSE, result |-> NoResult]
       ELSE IF ~IsOKReply(Head(log))
            THEN [requests |-> <<req>>, returned |-> TRUE,
                  result |-> [list |-> Nil, images |-> <<>>,
                              err |-> StatusError(Head(log).status)]]
            ELSE IF Len(PageOf(Head(log))) < PageLimit
                 THEN [requests |-> <<req>>, returned |-> TRUE,
                       result |-> [list |-> Nil, images |-> all \o PageOf(Head(log)),
                                   err |-> NoError]]
                 ELSE LET rest == ListAllAlone(o, Tail(log), off + PageLimit,
                                               all \o PageOf(Head(log)))
                      IN [rest EXCEPT !.requests = <<req>> \o rest.requests]

\* List run on its own
ListAlone(o, log) ==
    IF log = <<>>
    THEN [requests |-> <<ListRequest(o)>>, returned |-> FALSE, result |-> NoResult]
    ELSE [requests |-> <<ListRequest(o)>>, returned |-> TRUE,
          result |-> IF IsOKReply(Head(log))
                     THEN [list |-> Head(log).body, images |-> <<>>, err |-> NoError]
                     ELSE [list |-> Nil, images |-> <<>>,
                           err |-> StatusError(Head(log).status)]]

Alone(c) ==
    IF op[c] = "ListAll" THEN ListAllAlone(filterOpts[c], served[c], 0, <<>>)
    ELSE ListAlone(listOpts[c], served[c])

\* C10: List and ListAll calls running at the same time on one client do not
\* affect each other: under every interleaving the requests a call issues and
\* what it returns are those of the same call run alone against the replies it
\* received.
C10_CallsAreIndependent ==
    \A c \in Goroutines :
        op[c] # "none" =>
            /\ replies[c] = <<>> =>
                   /\ requests[c] = Alone(c).requests
                   /\ (pc[c] = "returned") = Alone(c).returned
            /\ pc[c] = "returned" => result[c] = Alone(c).result

C10_Witness ==
    /\ op[1] = "ListAll" /\ op[2] = "ListAll"
    /\ pc[1] = "waiting" /\ pc[2] = "returned"
    /\ Len(requests[1]) = 2 /\ Len(requests[2]) = 3
    /\ InFlight(1) = 1
    /\ filterOpts[1] # filterOpts[2]

RECURSIVE CountChar(_, _, _)
\* how many times the character ch occurs in s from position i on
CountChar(s, ch, i) ==
    IF i > Len(s) THEN 0
    ELSE (IF CharAt(s, i) = ch THEN 1 ELSE 0) + CountChar(s, ch, i + 1)

\* len(r.URL.Query()): the number of "key=value" parts of raw
ParamCount(raw) == IF raw = "" THEN 0 ELSE 1 + CountChar(raw, "&", 1)

\* the number of option fields of o that are present
PresentFields(o) ==
    (IF o.Limit # Nil THEN 1 ELSE 0) + (IF o.Offset # Nil THEN 1 ELSE 0)
        + (IF o.Sort # Nil THEN 1 ELSE 0) + (IF o.AvailabilityZone # Nil THEN 1 ELSE 0)

\* C11: the request of Images().List carries _limit, _offset, _sort and
\* availability-zone exactly when the option field of each is present and no
\* other parameter; with every field absent the query string is empty, and a
\* present zero is sent (_offset=0), not omitted.
C11_QueryHasExactlyThePresentFields ==
    \A c \in Goroutines :
        (op[c] = "List" /\ requests[c] # <<>>) =>
            LET raw == requests[c][1].rawQuery
                o == listOpts[c]
            IN /\ (QueryParam(raw, "_limit") # Nil) <=> (o.Limit # Nil)
               /\ (QueryParam(raw, "_offset") # Nil) <=> (o.Offset # Nil)
               /\ QueryParam(raw, "_sort") = o.Sort
               /\ QueryParam(raw, "availability-zone") = o.AvailabilityZone
               /\ ParamCount(raw) = PresentFields(o)
               /\ o = NoListOptions => raw = ""
               /\ o.Offset = Ptr(0) => QueryParam(raw, "_offset") = Ptr("0")
               /\ o.Limit = Ptr(0) => QueryParam(raw, "_limit") = Ptr("0")

C11_Witness ==
    /\ op[1] = "List" /\ pc[1] = "waiting"
    /\ listOpts[1] = [Limit |-> Nil, Offset |-> Ptr(0), Sort |-> Ptr("platform:asc"),
                      AvailabilityZone |-> Nil]
    /\ requests[1][1].rawQuery = "_offset=0&_sort=platform%3Aasc"

\* C12: the _limit and _offset parameters of Images().List are the decimal
\* strings of the caller's values, zero and negative ones included: nothing is
\* clamped, defaulted or rejected (Limit=1, Offset=1 gives _limit=1&_offset=1,
\* Limit=-1, Offset=-1 gives _limit=-1&_offset=-1).
C12_LimitAndOffsetAreLiteral ==
    \A c \in Goroutines :
        (op[c] = "List" /\ requests[c] # <<>>) =>
            LET raw == requests[c][1].rawQuery
                o == listOpts[c]
                pair(l, f) == [Limit |-> Ptr(l), Offset |-> Ptr(f), Sort |-> Nil,
                               AvailabilityZone |-> Nil]
            IN /\ o.Limit # Nil =>
                      Atoi(QueryGet(raw, "_limit")) = [ok |-> TRUE, val |-> Deref(o.Limit)]
               /\ o.Offset # Nil =>
                      Atoi(QueryGet(raw, "_offset")) = [ok |-> TRUE, val |-> Deref(o.Offset)]
               /\ o = pair(1, 1) => raw = "_limit=1&_offset=1"
               /\ o = pair(0 - 1, 0 - 1) => raw = "_limit=-1&_offset=-1"
               /\ o = pair(0, 0) => raw = "_limit=0&_offset=0"
               /\ o = pair(1, 0 - 1) => raw = "_limit=1&_offset=-1"

C12_Witness ==
    /\ op[1] = "List" /\ pc[1] = "waiting"
    /\ listOpts[1].Limit = Ptr(0 - 1) /\ listOpts[1].Offset = Ptr(0 - 1)
    /\ QueryGet(requests[1][1].rawQuery, "_limit") = "-1"
    /\ QueryGet(requests[1][1].rawQuery, "_offset") = "-1"

\* the reply the call of goroutine c has returned on: the call was not
\* cancelled and has read the one reply it was sent last
ReturnedOn(c) == pc[c] = "returned" /\ ~ctxDone[c] /\ served[c] # <<>>
LastServed(c) == served[c][Len(served[c])]

Is2xx(status) == status >= 200 /\ status < 300

\* C13: Images().List fails with an error and a nil list when a 200 response
\* has no body, an empty body or malformed JSON; it returns a list only when
\* the status is 2xx and the body decodes, and then the decoded body.
C13_UndecodableBodyFailsList ==
    \A c \in Goroutines :
        (op[c] = "List" /\ pc[c] = "returned") =>
            /\ (ReturnedOn(c) /\ LastServed(c).status = 200
                    /\ LastServed(c).body \in UndecodableBodies)
                   => result[c].err # NoError /\ result[c].list = Nil
            /\ result[c].list # Nil
                   => /\ ReturnedOn(c)
                      /\ Is2xx(LastServed(c).status)
                      /\ LastServed(c).body # Nil
                      /\ IsJSON(Deref(LastServed(c).body))
                      /\ result[c].list = LastServed(c).body
                      /\ result[c].err = NoError

C13_Witness ==
    /\ op[1] = "List" /\ ReturnedOn(1)
    /\ LastServed(1) = UndecodableReply(Ptr(NotJSON("")))
    /\ result[1].err = ErrDecoding
    /\ result[1].list = Nil

\* C14: a non-2xx response fails List, Create and Get with the error of its
\* status code: 400 a validation error, 404 a not-found error, 409 a conflict
\* error, 5xx a server error; the error retains the raw body of the response
\* and the call returns no value with it.
C14_StatusSelectsTypedError ==
    \A c \in Goroutines :
        (op[c] \in {"List", "Create", "Get"} /\ ReturnedOn(c)
            /\ ~Is2xx(LastServed(c).status)) =>
            /\ LastServed(c).status = 400 => result[c].err = ErrValidation
            /\ LastServed(c).status = 404 => result[c].err = ErrNotFound
            /\ LastServed(c).status = 409 => result[c].err = ErrConflict
            /\ LastServed(c).status \in 500 .. 599 => result[c].err = ErrServer
            /\ result[c].err # NoError
            /\ errBody[c] # Nil
            /\ errBody[c] = LastServed(c).body
            /\ result[c].list = Nil /\ gotID[c] = "" /\ got[c] = Nil

C14_Witness ==
    /\ op[1] = "Create" /\ ReturnedOn(1)
    /\ LastServed(1).status = 409
    /\ result[1].err = ErrConflict
    /\ errBody[1] = Ptr([error |-> "image name already exists"])

\* the requests of goroutine c that have reached the network
Sent(c) == Cardinality({m \in network : m.from = c}) + Len(served[c])

C16_CreateReturnsOnlyTheID ==
    \A c \in Goroutines :
        (op[c] = "Create" /\ pc[c] = "returned") =>
            /\ result[c].err # NoError => gotID[c] = ""
            /\ (ReturnedOn(c) /\ Is2xx(LastServed(c).status)
                    /\ LastServed(c).body # Nil
                    /\ IsJSON(Deref(LastServed(c).body))
                    /\ "id" \in DOMAIN Deref(LastServed(c).body))
                   => /\ gotID[c] = Deref(LastServed(c).body).id
                      /\ result[c].err = NoError

C16_Witness ==
    /\ op[1] = "Create" /\ ReturnedOn(1)
    /\ LastServed(1).status = 201
    /\ gotID[1] = "8cf5c6d9-d5c5-4af9-bd1b-c17d032dc761"
    /\ result[1].err = NoError

\* the calls of signing operations in the log of the storage-protocol library
SigningCalls ==
    SelectSeq(minioCalls,
              LAMBDA call : call.fn \in {"PresignedGetObject", "PresignedHeadObject",
                                         "PresignedPutObject"})

\* C17: GeneratePresignedURL with a method other than exactly GET, HEAD or PUT
\* returns a nil URL and an InvalidHTTPMethodError carrying the method, and
\* calls no operation of the storage-protocol client.
C17_InvalidMethodFailsWithoutCall ==
    (presignArgs # Nil /\ Deref(presignArgs).method \notin {"GET", "HEAD", "PUT"}) =>
        /\ presignURL = Nil
        /\ presignErr = Ptr([type |-> "InvalidHTTPMethodError",
                             Method |-> Deref(presignArgs).method])
        /\ SigningCalls = <<>>
        /\ \A i \in 1 .. Len(minioCalls) : minioCalls[i].fn \in {"minio.New", "SetAppInfo"}

C17_Witness ==
    /\ presignArgs # Nil
    /\ Deref(presignArgs).method = "get"
    /\ presignErr = Ptr(InvalidHTTPMethodError("get"))
    /\ presignURL = Nil
    /\ Len(minioCalls) = 1

\* C18: GeneratePresignedURL with GET, HEAD or PUT makes exactly one call of
\* a signing operation on the client's storage-protocol client:
\* PresignedGetObject for GET, PresignedHeadObject for HEAD, PresignedPutObject
\* for PUT, with the caller's bucket name, object key and expiry.
C18_VerbSelectsSigningOperation ==
    (presignArgs # Nil /\ Deref(presignArgs).method \in {"GET", "HEAD", "PUT"}) =>
        /\ Len(SigningCalls) = 1
        /\ Deref(presignArgs).method = "GET" => SigningCalls[1].fn = "PresignedGetObject"
        /\ Deref(presignArgs).method = "HEAD" => SigningCalls[1].fn = "PresignedHeadObject"
        /\ Deref(presignArgs).method = "PUT" => SigningCalls[1].fn = "PresignedPutObject"
        /\ SigningCalls[1].client = Deref(Deref(osClient).minioClient)
        /\ SigningCalls[1].bucketName = Deref(presignArgs).bucketName
        /\ SigningCalls[1].objectName = Deref(presignArgs).objectKey
        /\ SigningCalls[1].expiry = Deref(presignArgs).expiry

C18_Witness ==
    /\ presignArgs # Nil
    /\ Deref(presignArgs).method = "HEAD"
    /\ Deref(presignArgs).objectKey = "dir/other key"
    /\ Deref(presignArgs).expiry = 604800
    /\ Len(SigningCalls) = 1
    /\ SigningCalls[1].fn = "PresignedHeadObject"
    /\ SigningCalls[1].client = MockClient

\* C19: for GET, HEAD and PUT, GeneratePresignedURL returns the URL and the
\* error that the signing operation returned, both as they are: an error is
\* not wrapped or replaced, a URL not modified or dropped.
C19_CollaboratorResultIsReturnedUnchanged ==
    (presignArgs # Nil /\ Deref(presignArgs).method \in {"GET", "HEAD", "PUT"}) =>
        /\ SigningCalls # <<>>
        /\ presignURL = SigningCalls[Len(SigningCalls)].ret.url
        /\ presignErr = SigningCalls[Len(SigningCalls)].ret.err

C19_Witness ==
    /\ presignArgs # Nil
    /\ Deref(presignArgs).method = "PUT"
    /\ presignErr = Ptr(MinioError("AccessDenied"))
    /\ presignURL # Nil
    /\ Deref(presignURL).Host = "hook"

RECURSIVE EndpointAfter(_, _, _)
\* the endpoint of the last WithEndpoint among the options from the i-th on,
\* endpoint when there is none
EndpointAfter(opts, i, endpoint) ==
    IF i > Len(opts) THEN endpoint
    ELSE EndpointAfter(opts, i + 1,
                       IF opts[i].option = "WithEndpoint" THEN opts[i].endpoint
                       ELSE endpoint)

\* the field of the first check of New that its arguments fail, "" when they
\* pass all four
FirstFailedCheck(args) ==
    IF args.core = Nil THEN "core"
    ELSE IF args.accessKey = "" THEN "accessKey"
    ELSE IF args.secretKey = "" THEN "secretKey"
    ELSE IF EndpointAfter(args.opts, 1, BrSe1) \notin {BrSe1, BrNe1} THEN "endpoint"
    ELSE ""

\* C20: New checks its arguments before it builds a client: a nil core
\* client, an empty access key, an empty secret key or an invalid endpoint
\* give a nil client and a ValidationError whose Field is core, accessKey,
\* secretKey or endpoint, the first check that fails in this order; no MinIO
\* client is created then and SetAppInfo is not called.
C20_PreflightChecksComeFirst ==
    (newArgs # Nil /\ FirstFailedCheck(Deref(newArgs)) # "") =>
        /\ osClient = Nil
        /\ newErr # Nil
        /\ Deref(newErr).type = "ValidationError"
        /\ Deref(newErr).Field = FirstFailedCheck(Deref(newArgs))
        /\ minioCalls = <<>>

C20_Witness ==
    /\ newArgs # Nil
    /\ Deref(newArgs).core = Nil
    /\ Deref(newArgs).accessKey = ""
    /\ Deref(newArgs).opts = <<WithMinioClientInterface(MockClient), WithEndpoint("")>>
    /\ osClient = Nil
    /\ newErr = Ptr(ValidationError("core", "core client cannot be nil"))
    /\ minioCalls = <<>>

\* the calls of minio.New in the log of the storage-protocol library
MinioNewCalls == SelectSeq(minioCalls, LAMBDA call : call.fn = "minio.New")

\* C21: New uses BR-SE1 as the endpoint unless a WithEndpoint option is
\* given; the options are applied in argument order, so the client New returns
\* has the endpoint of the last WithEndpoint, and it is this endpoint's host
\* that New builds a MinIO client for; the client NewWithEndpoint(core, e, ...)
\* returns has the endpoint e, also when opts holds a WithEndpoint option.
C21_LastEndpointWins ==
    (newArgs # Nil /\ osClient # Nil) =>
        /\ Deref(osClient).endpoint = EndpointAfter(Deref(newArgs).opts, 1, BrSe1)
        /\ (\A i \in 1 .. Len(Deref(newArgs).opts) :
               Deref(newArgs).opts[i].option # "WithEndpoint")
              => Deref(osClient).endpoint = BrSe1
        /\ \A i \in 1 .. Len(MinioNewCalls) :
              "https://" \o MinioNewCalls[i].endpoint = Deref(osClient).endpoint
        /\ newWithEndpointArgs # Nil =>
              Deref(osClient).endpoint = Deref(newWithEndpointArgs).endpoint

C21_Witness ==
    /\ newWithEndpointArgs # Nil
    /\ Deref(newWithEndpointArgs).endpoint = BrNe1
    /\ Deref(newWithEndpointArgs).opts = <<WithEndpoint(""), WithEndpoint(BrSe1)>>
    /\ osClient # Nil
    /\ Deref(osClient).endpoint = BrNe1
    /\ Len(MinioNewCalls) = 1

RECURSIVE CoreClientAfter(_, _, _)
\* the core client of a compute client that held core after the first n of
\* the options opts have run
CoreClientAfter(opts, n, core) ==
    IF n = 0 THEN core
    ELSE IF opts[n].option = "SetCoreClient" THEN opts[n].core
         ELSE CoreClientAfter(opts, n - 1, core)

\* C22: compute.New returns nil exactly when the core client is nil; with a
\* nil core client no option function is invoked; otherwise every option is
\* invoked exactly once, in argument order, on the new client, which holds
\* the core client and the effects of the options before it, and the client
\* returned holds the effects of all of them.
C22_ComputeNewAppliesOptionsInOrder ==
    vmArgs # Nil =>
        LET core == Deref(vmArgs).core
            opts == Deref(vmArgs).opts
        IN /\ vmClient = Nil <=> core = Nil
           /\ core = Nil => vmOptionCalls = <<>>
           /\ core # Nil =>
                 /\ Len(vmOptionCalls) = Len(opts)
                 /\ \A i \in 1 .. Len(opts) :
                       /\ vmOptionCalls[i].option = opts[i]
                       /\ vmOptionCalls[i].client.CoreClient =
                              CoreClientAfter(opts, i - 1, core)
                 /\ Deref(vmClient).CoreClient = CoreClientAfter(opts, Len(opts), core)

C22_Witness ==
    /\ vmArgs # Nil
    /\ Deref(vmArgs).core = Ptr([UserAgent |-> "mgc-sdk-go"])
    /\ Len(Deref(vmArgs).opts) = 3
    /\ Deref(vmArgs).opts[1] = [option |-> "SetCoreClient", core |-> Nil]
    /\ Deref(vmArgs).opts[2] = [option |-> "SetCoreClient",
                                core |-> Ptr([UserAgent |-> "other-agent"])]
    /\ Deref(vmArgs).opts[3].option = "Inspect"
    /\ vmClient = Ptr([CoreClient |-> Ptr([UserAgent |-> "other-agent"])])
    /\ Len(vmOptionCalls) = 3

\* C24: List never returns a list together with an error: when it fails, in
\* building the request, in the transport, on a status that is not 2xx or in
\* decoding the body, the list is nil, and when it succeeds the list is not
\* nil and the error is.
C24_ListOrErrorNeverBoth ==
    \A c \in Goroutines :
        (op[c] = "List" /\ pc[c] = "returned") =>
            /\ result[c].err # NoError => result[c].list = Nil /\ response[c] = Nil
            /\ result[c].err = NoError => result[c].list # Nil
            /\ requests[c] = <<>> => result[c].err = ErrRequest
            /\ (ReturnedOn(c) /\ ~IsOKReply(LastServed(c))) => result[c].err # NoError

C24_Witness ==
    /\ op[1] = "List" /\ ReturnedOn(1)
    /\ LastServed(1).status = 400
    /\ LastServed(1).body # Nil
    /\ result[1].err = ErrValidation
    /\ result[1].list = Nil

\* C25: against a server that holds N records and answers every request with
\* the truthful page of at most 50 of them, a ListAll call that succeeds has
\* issued exactly floor(N/50)+1 requests: when N is a positive multiple of 50
\* the last of them was answered with an empty page, and when N is 0 there
\* was one request.
C25_RequestCountOfListAll ==
    \A c \in Goroutines :
        (op[c] = "ListAll" /\ pc[c] = "returned" /\ result[c].err = NoError
           /\ Truthful(c)) =>
            LET N == Deref(served[c][1].body).meta.total
            IN /\ Len(requests[c]) = N \div PageLimit + 1
               /\ Len(served[c]) = Len(requests[c])
               /\ Len(result[c].images) = N
               /\ (N > 0 /\ N % PageLimit = 0) => PageOf(LastServed(c)) = <<>>
               /\ N = 0 => Len(requests[c]) = 1

C25_Witness ==
    /\ op[1] = "ListAll" /\ pc[1] = "returned" /\ result[1].err = NoError
    /\ Truthful(1)
    /\ Deref(served[1][1].body).meta.total = PageLimit
    /\ Len(requests[1]) = 2
    /\ PageOf(LastServed(1)) = <<>>
    /\ Len(result[1].images) = PageLimit

\* C26: ListAll has no bound on the number of pages. It returns only on a
\* List error or after a page with fewer than 50 records; after every page
\* with 50 records or more, however many it has read, it appends the whole
\* page, also one with more than 50 records, and requests the page 50 further
\* on, so a server that answers every offset with 50 records or more keeps it
\* requesting.
C26_NoBoundOnPages ==
    /\ [](\A c \in Goroutines :
            (op[c] = "ListAll" /\ pc[c] = "returned") =>
                \/ result[c].err # NoError
                \/ /\ served[c] # <<>>
                   /\ replies[c] = <<>>
                   /\ IsOKReply(LastServed(c))
                   /\ Len(PageOf(LastServed(c))) < PageLimit)
    /\ [][\A c \in Goroutines :
            (op[c] = "ListAll" /\ pc[c] = "waiting" /\ ~ctxDone[c] /\ ReadsReply(c)
               /\ IsOKReply(Head(replies[c]))
               /\ Len(PageOf(Head(replies[c]))) >= PageLimit)
            => /\ pc'[c] = "waiting"
               /\ allImages'[c] = allImages[c] \o PageOf(Head(replies[c]))
               /\ Len(requests'[c]) = Len(requests[c]) + 1
               /\ RequestOffset(requests'[c][Len(requests'[c])])
                      = RequestOffset(requests[c][Len(requests[c])]) + PageLimit]_vars

C26_Witness ==
    /\ op[1] = "ListAll" /\ pc[1] = "waiting" /\ ~ctxDone[1]
    /\ Len(served[1]) = MaxFullPages
    /\ \A i \in 1 .. Len(served[1]) :
          IsOKReply(served[1][i]) /\ Len(PageOf(served[1][i])) = PageLimit + 1
    /\ Len(requests[1]) = MaxFullPages + 1
    /\ RequestOffset(requests[1][Len(requests[1])]) = MaxFullPages * PageLimit
    /\ Len(allImages[1]) = MaxFullPages * (PageLimit + 1)

\* C27: GeneratePresignedURL for PUT does not hand the caller's reqParams to
\* the storage-protocol client: the call it makes, and with it the result, is
\* the same for every value of reqParams; for GET and HEAD the call carries
\* the caller's reqParams as they are.
C27_PutIgnoresReqParams ==
    (presignArgs # Nil /\ Deref(presignArgs).method \in {"GET", "HEAD", "PUT"}) =>
        LET a == Deref(presignArgs)
            call == SigningCalls[1]
        IN /\ Len(SigningCalls) = 1
           /\ a.method \in {"GET", "HEAD"} =>
                 "reqParams" \in DOMAIN call /\ call.reqParams = a.reqParams
           /\ a.method = "PUT" =>
                 /\ "reqParams" \notin DOMAIN call
                 /\ \A p \in ReqParams :
                       PresignOutcome(Deref(osClient), "PUT", a.bucketName, a.objectKey,
                                      a.expiry, p, call.ret)
                           = [url |-> presignURL, err |-> presignErr, calls |-> <<call>>]

C27_Witness ==
    /\ presignArgs # Nil
    /\ Deref(presignArgs).method = "PUT"
    /\ Deref(presignArgs).reqParams = <<(<<"response-content-type", "text/plain">>)>>
    /\ Len(SigningCalls) = 1
    /\ DOMAIN SigningCalls[1] =
           {"fn", "client", "bucketName", "objectName", "expiry", "ret"}
    /\ presignURL # Nil /\ presignErr = Nil

RECURSIVE SuppliedClientOf(_, _)
\* a pointer to the storage-protocol client of the last WithMinioClient or
\* WithMinioClientInterface among the first n of the options opts, Nil when
\* there is none
SuppliedClientOf(opts, n) ==
    IF n = 0 THEN Nil
    ELSE IF opts[n].option \in {"WithMinioClient", "WithMinioClientInterface"}
         THEN Ptr(opts[n].minioClient)
         ELSE SuppliedClientOf(opts, n - 1)

\* the calls of SetAppInfo in the log of the storage-protocol library
SetAppInfoCalls == SelectSeq(minioCalls, LAMBDA call : call.fn = "SetAppInfo")

\* C28: New does not replace a storage-protocol client supplied through
\* WithMinioClient or WithMinioClientInterface: the client it returns uses the
\* supplied instance, on which SetAppInfo has been called exactly once, with
\* the app name "wrapper" and the user agent of the core client; New calls
\* minio.New only when no client was supplied, and then uses and names the
\* client it built.
C28_SuppliedClientIsKept ==
    newArgs # Nil =>
        LET args == Deref(newArgs)
            supplied == SuppliedClientOf(args.opts, Len(args.opts))
        IN /\ MinioNewCalls # <<>> => supplied = Nil
           /\ osClient # Nil =>
                 /\ supplied # Nil => Deref(osClient).minioClient = supplied
                 /\ supplied = Nil =>
                       /\ Len(MinioNewCalls) = 1
                       /\ Deref(osClient).minioClient = MinioNewCalls[1].ret.client
                 /\ SetAppInfoCalls =
                        <<[fn |-> "SetAppInfo",
                           client |-> Deref(Deref(osClient).minioClient),
                           appName |-> "wrapper",
                           appVersion |-> Deref(args.core).UserAgent]>>

C28_Witness ==
    /\ newArgs # Nil
    /\ Deref(newArgs).opts = <<WithMinioClient(SuppliedClient), WithEndpoint(BrNe1)>>
    /\ osClient # Nil
    /\ Deref(osClient).minioClient = Ptr(SuppliedClient)
    /\ minioCalls = <<[fn |-> "SetAppInfo", client |-> SuppliedClient,
                       appName |-> "wrapper", appVersion |-> "mgc-sdk-go"]>>

\* C29: in the test double, BucketExists(b) is true exactly when the last of
\* the MakeBucket and RemoveBucket calls naming b was MakeBucket; right after
\* MakeBucket(b) the bucket b is empty, whatever it held before: no object, no
\* policy, no CORS, no versioning status, no lock configuration; and
\* RemoveBucket of a bucket that does not exist returns no error and leaves
\* the double as it was
EmptyBucket(bucket) ==
    /\ Keys(bucket.objects) = {}
    /\ bucket.policy = ""
    /\ bucket.corsConfig = Nil
    /\ bucket.versioning = [Status |-> ""]
    /\ bucket.lockConfig = Nil

C29_BucketLifecycle ==
    /\ [](\A r \in Runs :
            /\ \A b \in BucketNames :
                   BucketExists(doubles[r], b).ret.exists
                       <=> lastBucketCall[b] = "MakeBucket"
            /\ mockCall # Nil /\ Deref(mockCall).fn = "MakeBucket"
                   => /\ doubles[r].buckets[Deref(mockCall).bucketName] # Nil
                      /\ EmptyBucket(Deref(doubles[r].buckets[Deref(mockCall).bucketName]))
                      /\ Deref(mockRet[r]).err = Nil)
    /\ [][\A r \in Runs :
              Deref(mockCall').fn = "RemoveBucket"
                  /\ doubles[r].buckets[Deref(mockCall').bucketName] = Nil
              => doubles'[r] = doubles[r] /\ Deref(mockRet'[r]).err = Nil]_vars

C29_Witness ==
    /\ mockOps = 3
    /\ mockCall = Ptr([fn |-> "BucketExists", bucketName |-> "test-bucket",
                       objectName |-> "", arg |-> Nil])
    /\ lastBucketCall["test-bucket"] = "RemoveBucket"
    /\ lastBucketCall["other-bucket"] = "MakeBucket"
    /\ \A r \in Runs : Deref(mockRet[r]) = [exists |-> FALSE, err |-> Nil]

\* C30: in the test double, SetBucketPolicy, SetBucketCors,
\* SetObjectLockConfig, EnableVersioning, SuspendVersioning, PutObject,
\* RemoveObject and PutObjectRetention, called with the name of a bucket that
\* does not exist, return a nil error and leave the double as it was: no
\* bucket is created
MutatingOperations ==
    {"SetBucketPolicy", "SetBucketCors", "SetObjectLockConfig", "EnableVersioning",
     "SuspendVersioning", "PutObject", "RemoveObject", "PutObjectRetention"}

C30_MissingBucketIsLeftAlone ==
    [][\A r \in Runs :
           Deref(mockCall').fn \in MutatingOperations
               /\ doubles[r].buckets[Deref(mockCall').bucketName] = Nil
           => doubles'[r] = doubles[r] /\ Deref(mockRet'[r]).err = Nil]_vars

C30_Witness ==
    /\ mockOps = 3
    /\ mockCall # Nil
    /\ Deref(mockCall).fn = "PutObject"
    /\ lastBucketCall["test-bucket"] = "RemoveBucket"
    /\ \A r \in Runs :
           /\ Keys(doubles[r].buckets) = {}
           /\ Deref(mockRet[r]).err = Nil

\* C23 as stated: two runs of the same calls with the same arguments on fresh
\* test doubles return the same results
C23_RunsReturnTheSame == mockCall # Nil => mockRet[1] = mockRet[2]

\* the query parameters of the signed URLs that the id drawn and the clock
\* do not enter, read from the query string of each URL
SignedURLParameters ==
    {[url |-> e.url,
      Algorithm |-> QueryParam(e.url.RawQuery, "X-Amz-Algorithm"),
      SignedHeaders |-> QueryParam(e.url.RawQuery, "X-Amz-SignedHeaders"),
      Expires |-> QueryParam(e.url.RawQuery, "X-Amz-Expires")] : e \in SignedURLs}

\* what of a call's result neither the clock, nor the id drawn, nor the order
\* of a range over a map decides
StableResult(call, ret) ==
    CASE call.fn \in SigningOperations ->
            LET p == CHOOSE p \in SignedURLParameters : p.url = Deref(ret.url)
            IN [Scheme |-> p.url.Scheme, Host |-> p.url.Host, Path |-> p.url.Path,
                Algorithm |-> p.Algorithm, SignedHeaders |-> p.SignedHeaders,
                Expires |-> p.Expires, err |-> ret.err]
      [] call.fn = "ListBuckets" ->
            [names |-> {ret.buckets[i].Name : i \in DOMAIN ret.buckets},
             count |-> Len(ret.buckets), err |-> ret.err]
      [] call.fn = "ListObjects" ->
            [objects |-> {[ret.objects[i] EXCEPT !.LastModified = Nil] :
                            i \in DOMAIN ret.objects},
             count |-> Len(ret.objects)]
      [] call.fn = "StatObject" -> [ret EXCEPT !.info.LastModified = Nil]
      [] OTHER -> ret

\* C23, amended: two runs of the same calls with the same arguments on fresh
\* test doubles return the same errors and the same results in all that the
\* clock, the id drawn and the order of a range over a map do not decide: a
\* presigned URL has the same scheme, host, path, X-Amz-Algorithm,
\* X-Amz-SignedHeaders and X-Amz-Expires; ListBuckets returns the same bucket
\* names, in some order; ListObjects and StatObject return the same objects
\* apart from LastModified; every other result is the same
C23_RunsAgreeApartFromClockIdAndOrder ==
    mockCall # Nil =>
        StableResult(Deref(mockCall), Deref(mockRet[1]))
            = StableResult(Deref(mockCall), Deref(mockRet[2]))

C23_Witness ==
    /\ mockCall # Nil
    /\ Deref(mockCall).fn = "PresignedGetObject"
    /\ Deref(Deref(mockRet[1]).url).RawQuery # Deref(Deref(mockRet[2]).url).RawQuery
    /\ QueryParam(Deref(Deref(mockRet[1]).url).RawQuery, "X-Amz-Expires") = Ptr("60")
    /\ QueryParam(Deref(Deref(mockRet[2]).url).RawQuery, "X-Amz-Expires") = Ptr("60")

====
